---------------------------- MODULE Spec2Model ----------------------------
(***************************************************************************)
(* Fury (gi4nks/fury): the bookmark import endpoints, the category store   *)
(* and the in-memory hierarchy editor, modelled as state machines.         *)
(*                                                                         *)
(*   Spec     one import request at a time (streaming, batch or simple     *)
(*            endpoint), with a client that may abort the connection.      *)
(*   SpecCat  the category store: merge, bulk create, custom-taxonomy      *)
(*            creation, ensureCategoryByName, and the hierarchy editor.    *)
(*   SpecFold, SpecCrawl   one streaming run over url variants / over a    *)
(*            list long enough for the crawl delay.                        *)
(*   SpecBulk the bulk category route with any level values in the body.   *)
(*   SpecAssign, SpecLlm   batch assignment and the sequence of LLM calls. *)
(*   SpecChoose, SpecDiscover, SpecValidate, SpecGuess   the pure          *)
(*            functions customCategoryId, buildHierarchyFromSuggestions,   *)
(*            validateUrl and guessCategoryNameFromBookmark on inputs      *)
(*            drawn by Init.                                               *)
(***************************************************************************)
EXTENDS Integers, Sequences, FiniteSets, TLC

VARIABLES
    \* ---- persisted store (prisma) ----
    bookmarks,      \* Bookmark table: stored url |-> [title, categoryId]
    category,       \* Category table: id |-> [parentId, keywords]   (0 = NULL)
    sessions,       \* ImportSession table: sequence of rows
    \* ---- one import request (locals of the POST handler) ----
    runNo,          \* number of the current request
    kind,           \* "stream" | "batch" | "simple": which endpoint serves it
    pc,             \* position of the handler
    parsed,         \* parsedBookmarks
    hasRootList,    \* the uploaded html has a root <dl> (walkDl ran)
    sleeps,         \* number of crawl delays the run has slept
    scraped,        \* scrapeMetadata's answer for the current bookmark:
                    \* "none" (not called), "null" (fetch failed), "meta"
    unique,         \* uniqueBookmarks (the list the loop walks)
    dups,           \* duplicatesInFile
    useCustom,      \* useCustomCategories
    customList,     \* customCategoryList (ids, in creation order)
    i,              \* loop index (batch endpoint: start of the current batch)
    j,              \* batch endpoint: index into enhancedBatch
    newB,           \* newBookmarks   (successful, for the simple endpoint)
    updB,           \* updatedBookmarks
    failed,
    skipped,
    enhanced,       \* batch endpoint: enhancedBatch of the current batch
    existing,       \* result of the findUnique preceding the write
    catId,          \* categoryId chosen for the current bookmark
    isClosed,       \* the stream controller's isClosed flag
    emitted,        \* events passed to controller.enqueue (sendEvent past its guard)
    delivered,      \* events the enqueue accepted (consumer still connected)
    aborted,        \* the client aborted the connection (handleCancel)
    abortedAt,      \* loop index at which the abort happened (-1: not aborted)
    outerError,     \* the operation whose exception reached the handler's outer catch
    response,       \* batch/simple endpoint: HTTP status returned (0: none yet)
    \* ---- hierarchy editor (in-memory DiscoveredCategory forest) ----
    tree,           \* [nodes, parent, level, keywords]
    lastOp,         \* last editor / store operation, its arguments, and (store
                    \* operations) the value of ops when it began
    before,         \* store and forest as they were when lastOp began
    mergePc,        \* position of the merge endpoint's handler
    mergeArgs,      \* [sourceId, targetId, mergedKeywords] of the merge in progress
    bulkPc,         \* position of the bulk-create endpoint's handler
    bulkArgs,       \* [replaceExisting, sorted, k] of the bulk create in progress
    ops,            \* number of category operations started
    \* ---- the Gemini client (geminiClient.ts, keywordGenerator) ----
    llmPc,          \* position of the function that is calling the model
    llmIn,          \* its arguments
    llmI,           \* its loop index (start of the current batch / category)
    inFlight,       \* callGemini requests sent and not yet answered
    geminiResponse, \* the GeminiResponse the last callGemini returned
    allAssignments, \* batchAssignBookmarksToCategories: allAssignments
    allUnassigned,  \* batchAssignBookmarksToCategories: allUnassigned
    log,            \* calls, returns, delays and onProgress calls of the run
    llmRuns,        \* number of client functions started
    \* ---- library functions applied to drawn arguments ----
    fnIn,           \* the arguments
    fnOut           \* what the function returned

importVars == <<runNo, kind, pc, parsed, hasRootList, sleeps, scraped, unique, dups, useCustom, customList, i, j,
                newB, updB, failed, skipped, enhanced, existing, catId, isClosed,
                emitted, delivered, aborted, abortedAt, outerError, response>>
catVars    == <<tree, lastOp, before, mergePc, mergeArgs, bulkPc, bulkArgs, ops>>
llmVars    == <<llmPc, llmIn, llmI, inFlight, geminiResponse, allAssignments, allUnassigned,
                log, llmRuns>>
fnVars     == <<fnIn, fnOut>>
libVars    == <<llmVars, fnVars>>
vars       == <<bookmarks, category, sessions, importVars, catVars, libVars>>

---------------------------------------------------------------------------
(* Bounds of the model *)

MaxFileLen == 2     \* entries in an uploaded file
MaxRuns    == 2     \* import requests, one after the other
MaxCatOps  == 3     \* category operations in SpecCat
NumCats    == 5     \* distinct category slugs / temporary ids

(* Program constants *)

MAX_HIERARCHY_DEPTH == 4
BATCH_SIZE          == 5
CRAWL_BATCH_SIZE    == 5

NULL == 0
Cats == 1..NumCats

Range(s) == {s[k] : k \in 1..Len(s)}

---------------------------------------------------------------------------
(* URLs.  A URL string is kept in parsed form: scheme and host (case as    *)
(* written), port as written ("" when none), path segments (case as        *)
(* written), whether the string's path ends in "/", and the query.         *)
(* <<>> with slash = FALSE is "https://x.com", with TRUE "https://x.com/".  *)

LowerScheme(sc) == IF sc = "HTTPS" THEN "https" ELSE IF sc = "HTTP" THEN "http" ELSE sc

LowerHost(h) == IF h = "X.COM" THEN "x.com" ELSE h

DefaultPort(sc) == IF LowerScheme(sc) = "https" THEN "443"
                   ELSE IF LowerScheme(sc) = "http" THEN "80" ELSE ""

UrlFull(sc, h, port, segs, sl, q) ==
    [scheme |-> sc, host |-> h, port |-> port, segs |-> segs, slash |-> sl, query |-> q]

Url(h, segs, sl) == UrlFull("https", h, "", segs, sl, "")

\* new URL(u).protocol: lower case
Protocol(u) == LowerScheme(u.scheme)

\* new URL(u).host: lower case, with the port unless it is the scheme's default
Host(u) == [name |-> LowerHost(u.host),
            port |-> IF u.port = DefaultPort(u.scheme) THEN "" ELSE u.port]

\* faulty variant: an empty path is not turned into "/"
PathnameAsWritten(u) == [segs |-> u.segs, slash |-> u.slash]

\* new URL(u).pathname ends in "/" iff the path is empty or the string does
Pathname(u) == [segs |-> u.segs, slash |-> (u.segs = <<>>) \/ u.slash]

\* faulty variant: the trailing slash is kept
normalizeUrlNoStrip(u) ==
    UrlFull(Protocol(u), Host(u).name, Host(u).port, u.segs, Pathname(u).slash, u.query)

normalizeUrl(u) ==
    LET p == Pathname(u)
        endsWithSlash == p.slash
        isRoot == p.segs = <<>>
    IN  UrlFull(Protocol(u), Host(u).name, Host(u).port, p.segs,
                IF endsWithSlash /\ ~isRoot THEN FALSE ELSE p.slash,
                u.query)

U_a      == Url("x.com", <<"a">>, FALSE)    \* https://x.com/a
U_aSlash == Url("x.com", <<"a">>, TRUE)     \* https://x.com/a/
U_B      == Url("X.COM", <<"b">>, FALSE)    \* https://X.COM/b

Bm(u, t, d) == [url |-> u, title |-> t, description |-> d, sourceFolder |-> ""]

Entries == { Bm(U_a, "t1", ""), Bm(U_aSlash, "t2", "d"), Bm(U_B, "t3", "") }

RECURSIVE SeqsUpTo(_, _)
SeqsUpTo(S, n) ==
    IF n = 0 THEN {<<>>}
    ELSE LET shorter == SeqsUpTo(S, n - 1)
         IN  shorter \cup {Append(s, e) : s \in {t \in shorter : Len(t) = n - 1}, e \in S}

Files == SeqsUpTo(Entries, MaxFileLen)

\* an uploaded html: whether it has a root <dl>, and the <a> entries under it
Html(root, entries) == [rootList |-> root, entries |-> entries]

\* parseBookmarksFromHtml: no root <dl>, no bookmarks (and no error)
parseBookmarksFromHtml(html) == IF ~html.rootList THEN <<>> ELSE html.entries

Uploads == {Html(TRUE, f) : f \in Files} \cup {Html(FALSE, <<>>)}

---------------------------------------------------------------------------
(* deduplicateBookmarks: a Map keyed by the normalized url; a later entry  *)
(* replaces the kept one only when it brings a description or a folder the *)
(* kept one lacks.  Map order is first-insertion order of the keys.        *)

IndexOf(s, x) == CHOOSE k \in 1..Len(s) : s[k] = x

RECURSIVE DedupFrom(_, _, _, _, _)
DedupFrom(bs, k, keys, vals, n) ==
    IF k > Len(bs) THEN [unique |-> vals, duplicatesInFile |-> n]
    ELSE LET b   == bs[k]
             key == normalizeUrl(b.url)
         IN  IF key \in Range(keys)
             THEN LET at  == IndexOf(keys, key)
                      ex  == vals[at]
                      rep == (b.description # "" /\ ex.description = "")
                             \/ (b.sourceFolder # "" /\ ex.sourceFolder = "")
                  IN  DedupFrom(bs, k + 1, keys,
                                IF rep THEN [vals EXCEPT ![at] = b] ELSE vals, n + 1)
             ELSE DedupFrom(bs, k + 1, Append(keys, key), Append(vals, b), n)

deduplicateBookmarks(bs) == DedupFrom(bs, 1, <<>>, <<>>, 0)

---------------------------------------------------------------------------
(* Category table helpers.  A row is [parentId, keywords]; ids stand for   *)
(* slugs (both are unique keys of the table).                              *)

Keywords == {"x", "y", "z"}

Row(p, kw) == [parentId |-> p, keywords |-> kw]

Put(tbl, id, row) == [n \in DOMAIN tbl \cup {id} |-> IF n = id THEN row ELSE tbl[n]]

\* DEFAULT_CATEGORIES, cut down to one root preset, one preset with a parent
\* and the name "Other", which is no preset.
PresetRoot  == 1
PresetChild == 2
Other       == 3
DEFAULT_CATEGORIES == <<PresetRoot, PresetChild>>
PresetParent(name) == IF name = PresetChild THEN PresetRoot ELSE NULL

\* prisma.category.update({data: {parentId}}): an undefined parentId writes nothing
UpdateParent(tbl, id, parentId) ==
    IF parentId = NULL THEN tbl ELSE [tbl EXCEPT ![id].parentId = parentId]

RECURSIVE ensureCategoryByName(_, _)
ensureCategoryByName(tbl, name) ==
    LET parentName == PresetParent(name)
        t1       == IF parentName # NULL THEN ensureCategoryByName(tbl, parentName) ELSE tbl
        parentId == parentName
    IN  IF name \in DOMAIN t1
        THEN IF t1[name].parentId # parentId THEN UpdateParent(t1, name, parentId) ELSE t1
        ELSE Put(t1, name, Row(parentId, <<>>))

RECURSIVE EnsureAll(_, _, _)
EnsureAll(tbl, names, k) ==
    IF k > Len(names) THEN tbl
    ELSE EnsureAll(ensureCategoryByName(tbl, names[k]), names, k + 1)

ensureDefaultCategories(tbl) ==
    IF Cardinality(DOMAIN tbl) > 0 THEN tbl ELSE EnsureAll(tbl, DEFAULT_CATEGORIES, 1)

---------------------------------------------------------------------------
(* The in-memory DiscoveredCategory forest, kept flat:                     *)
(*   nodes, parent (0: a root), level, keywords.                           *)
(* Children are listed in ascending id order.                              *)

NoKw == [n \in Cats |-> <<>>]

TreeChildren(t, n) == {c \in t.nodes : t.parent[c] = n}

RECURSIVE SetToSeq(_)
SetToSeq(S) ==
    IF S = {} THEN <<>>
    ELSE LET m == CHOOSE x \in S : \A y \in S : x <= y
         IN  <<m>> \o SetToSeq(S \ {m})

RECURSIVE FlattenList(_, _, _)
\* flatten(category) for each category of the list, depth first, parent first
FlattenList(t, list, k) ==
    IF k > Len(list) THEN <<>>
    ELSE <<list[k]>> \o FlattenList(t, SetToSeq(TreeChildren(t, list[k])), 1)
                    \o FlattenList(t, list, k + 1)

flattenHierarchy(t) == FlattenList(t, SetToSeq(TreeChildren(t, NULL) \cap t.nodes), 1)

\* hops from n to a root along par, or NumCats + 1 when the chain never ends
RECURSIVE Hops(_, _, _, _)
Hops(par, dom, n, fuel) ==
    IF par[n] = NULL \/ par[n] \notin dom THEN 0
    ELSE IF fuel = 0 THEN NumCats + 1
    ELSE LET h == Hops(par, dom, par[n], fuel - 1)
         IN  IF h > NumCats THEN h ELSE h + 1

\* buildHierarchyFromFlat: a node whose parentId names no node of the list is
\* a root; a node is in the result only if it hangs under some root;
\* updateLevels then renumbers the levels from the roots.
buildHierarchyFromFlat(nodes, parent, kw) ==
    LET par   == [n \in Cats |-> IF n \in nodes /\ parent[n] \in nodes THEN parent[n] ELSE NULL]
        kept  == {n \in nodes : Hops(par, nodes, n, NumCats) <= NumCats}
    IN  [nodes    |-> kept,
         parent   |-> [n \in Cats |-> IF n \in kept THEN par[n] ELSE NULL],
         level    |-> [n \in Cats |-> IF n \in kept THEN Hops(par, nodes, n, NumCats) ELSE 0],
         keywords |-> [n \in Cats |-> IF n \in kept THEN kw[n] ELSE <<>>]]

\* [...new Set([...a, ...b])]: concatenation with later repeats dropped
RECURSIVE Dedupe(_)
Dedupe(s) ==
    IF s = <<>> THEN <<>>
    ELSE LET front == Dedupe(SubSeq(s, 1, Len(s) - 1))
             last  == s[Len(s)]
         IN  IF last \in Range(front) THEN front ELSE Append(front, last)

UnionKeywords(target, source) == Dedupe(target \o source)

\* createCustomCategories, stopped after its first `count` categories (a
\* storage error stops it there): each category is looked up by slug and
\* updated, or created, with the keywords and the parent of the submitted tree.
RECURSIVE StoreTreeNodes(_, _, _, _)
StoreTreeNodes(tbl, t, order, count) ==
    IF count = 0 THEN tbl
    ELSE LET n == order[count]
         IN  Put(StoreTreeNodes(tbl, t, order, count - 1), n,
                 Row(t.parent[n], t.keywords[n]))

createCustomCategories(tbl, t, count) == StoreTreeNodes(tbl, t, flattenHierarchy(t), count)

---------------------------------------------------------------------------
(* Import requests: shared pieces *)

EmptyUrl == Url("", <<>>, FALSE)

Ev(name, message) == [event |-> name, message |-> message]

\* the "skipped" event: {url, reason}
SkippedEv(url) == [event |-> "skipped", message |-> "Invalid URL", url |-> url]

IsTerminal(e) == e.event \in {"complete", "error"}

\* sendEvent for each event of evs, in order: nothing once isClosed; the
\* enqueue throws (and is caught) once the consumer is gone.
SendEvents(evs) ==
    IF isClosed THEN UNCHANGED <<emitted, delivered>>
    ELSE /\ emitted' = emitted \o evs
         /\ delivered' = IF aborted THEN delivered ELSE delivered \o evs

SessionRow(total, ok, bad, skip) ==
    [run |-> runNo, totalBookmarks |-> total, successfulBookmarks |-> ok,
     failedBookmarks |-> bad, skippedBookmarks |-> skip]

SessionsOf(r) == {k \in 1..Len(sessions) : sessions[k].run = r}

BookmarkRow(b, c) == [title |-> b.title, categoryId |-> c]

StoreBookmark(tbl, url, b, c) ==
    [u \in DOMAIN tbl \cup {url} |-> IF u = url THEN BookmarkRow(b, c) ELSE tbl[u]]

Idle == pc \in {"idle", "done"}

\* the locals of a fresh request
ResetLocals(k, file) ==
    /\ runNo' = runNo + 1
    /\ kind' = k
    /\ parsed' = file
    /\ i' = 0 /\ j' = 0
    /\ newB' = 0 /\ updB' = 0 /\ failed' = 0 /\ skipped' = 0
    /\ enhanced' = <<>>
    /\ existing' = FALSE
    /\ catId' = NULL
    /\ customList' = <<>>
    /\ aborted' = FALSE /\ abortedAt' = -1
    /\ outerError' = ""
    /\ response' = 0
    /\ sleeps' = 0
    /\ scraped' = "none"

FileStates == {"missing", "notHtml", "ok"}

---------------------------------------------------------------------------
(* The streaming import endpoint *)

CustomStates == {"none", "empty", "tree"}

\* faulty variant: the in-file duplicates are left out of the session row
SessionSkippedNoDups(skip, d) == skip

\* skippedBookmarks of the session row
SessionSkipped(skip, d) == skip + d

\* From the request to the first storage call: the file checks, parse,
\* dedupe, the "init" event and (custom taxonomy) the "categories" status.
StreamRequestFrom(uploads, maxRuns) ==
    /\ Idle /\ runNo < maxRuns
    /\ \E fs \in FileStates, html \in uploads, custom \in CustomStates :
        LET file == parseBookmarksFromHtml(html) IN
          /\ ResetLocals("stream", IF fs = "ok" THEN file ELSE <<>>)
          /\ hasRootList' = (fs = "ok" => html.rootList)
          /\ useCustom' = (fs = "ok" /\ custom # "none")
          /\ IF fs = "missing"
             THEN /\ emitted' = <<Ev("error", "Bookmark file is required.")>>
                  /\ isClosed' = TRUE /\ pc' = "done"
                  /\ unique' = <<>> /\ dups' = 0
             ELSE IF fs = "notHtml"
             THEN /\ emitted' = <<Ev("error", "Only HTML bookmark exports are supported.")>>
                  /\ isClosed' = TRUE /\ pc' = "done"
                  /\ unique' = <<>> /\ dups' = 0
             ELSE /\ emitted' = <<Ev("status", "parsing"), Ev("init", "")>>
                               \o (IF custom = "tree" THEN <<Ev("status", "categories")>>
                                   ELSE <<>>)
                  /\ isClosed' = FALSE
                  /\ unique' = deduplicateBookmarks(file).unique
                  /\ dups' = deduplicateBookmarks(file).duplicatesInFile
                  /\ pc' = IF custom = "tree" THEN "customSetup" ELSE "defaultSetup"
          /\ delivered' = emitted'
    /\ UNCHANGED <<bookmarks, category, sessions, catVars, libVars>>

StreamRequest == StreamRequestFrom(Uploads, MaxRuns)

\* faulty variant: the outer catch closes the stream without an error event
OuterCatchSilent(op) ==
    /\ outerError' = op
    /\ UNCHANGED <<emitted, delivered>>
    /\ isClosed' = TRUE
    /\ pc' = "done"

\* the handler's outer catch and finally
OuterCatch(op) ==
    /\ outerError' = op
    /\ SendEvents(<<Ev("error", "Import failed. Please try again.")>>)
    /\ isClosed' = TRUE
    /\ pc' = "done"

\* the events of the AI batch assignment (one batch of 50 covers the file)
AssignEvents(gemini) ==
    IF gemini
    THEN <<Ev("status", "assigning")>>
         \o (IF Len(unique) > 0 THEN <<Ev("progress", "assigning")>> ELSE <<>>)
         \o <<Ev("status", "assigned")>>
    ELSE <<>>

\* createCustomCategories, the AI assignment, then "importing"
StreamCustomSetup ==
    /\ kind = "stream" /\ pc = "customSetup"
    /\ LET order == flattenHierarchy(tree)
       IN  \E count \in 0..Len(order), gemini \in BOOLEAN :
             /\ category' = createCustomCategories(category, tree, count)
             /\ IF count < Len(order)
                THEN /\ OuterCatch("createCustomCategories")
                     /\ UNCHANGED customList
                ELSE /\ customList' = order
                     /\ SendEvents(AssignEvents(gemini /\ Len(order) > 0)
                                   \o <<Ev("status", "importing")>>)
                     /\ pc' = "loop"
                     /\ UNCHANGED <<outerError, isClosed>>
    /\ UNCHANGED <<bookmarks, sessions, runNo, kind, parsed, hasRootList, sleeps, scraped, unique, dups, useCustom,
                   i, j, newB, updB, failed, skipped, enhanced, existing, catId,
                   aborted, abortedAt, response, catVars, libVars>>

\* ensureDefaultCategories, then "importing"
StreamDefaultSetup ==
    /\ kind = "stream" /\ pc = "defaultSetup"
    /\ \E fail \in BOOLEAN :
          IF fail
          THEN /\ OuterCatch("ensureDefaultCategories")
               /\ UNCHANGED category
          ELSE /\ category' = ensureDefaultCategories(category)
               /\ SendEvents(<<Ev("status", "importing")>>)
               /\ pc' = "loop"
               /\ UNCHANGED <<outerError, isClosed>>
    /\ UNCHANGED <<bookmarks, sessions, runNo, kind, parsed, hasRootList, sleeps, scraped, unique, dups, useCustom,
                   customList, i, j, newB, updB, failed, skipped, enhanced, existing,
                   catId, aborted, abortedAt, response, catVars, libVars>>

CustomMode == useCustom /\ Len(customList) > 0

\* Top of the loop body: processed++, the progress event, the empty-url
\* check, and (custom taxonomy) the choice of the category.
StreamLoopHead ==
    /\ kind = "stream" /\ pc = "loop" /\ i < Len(unique)
    /\ LET b == unique[i + 1]
           processed == i + 1
       IN  /\ IF ~useCustom \/ processed % 10 = 0 \/ processed = Len(unique)
              THEN SendEvents(<<Ev("progress", "")>>)
              ELSE UNCHANGED <<emitted, delivered>>
           /\ IF b.url = EmptyUrl
              THEN /\ failed' = failed + 1 /\ i' = i + 1
                   /\ UNCHANGED <<pc, catId>>
              ELSE IF CustomMode
              THEN /\ \E c \in Range(customList) : catId' = c
                   /\ pc' = "find"
                   /\ UNCHANGED <<failed, i>>
              ELSE /\ pc' = "validate"
                   /\ UNCHANGED <<failed, i, catId>>
    /\ UNCHANGED <<bookmarks, category, sessions, runNo, kind, parsed, hasRootList, sleeps, scraped, unique, dups,
                   useCustom, customList, j, newB, updB, skipped, enhanced, existing,
                   isClosed, aborted, abortedAt, outerError, response, catVars, libVars>>

\* validateUrl is awaited and answers true or false
StreamValidate ==
    /\ kind = "stream" /\ pc = "validate"
    /\ \E isValid \in BOOLEAN : pc' = IF isValid THEN "scrape" ELSE "invalid"
    /\ UNCHANGED <<bookmarks, category, sessions, runNo, kind, parsed, hasRootList, sleeps,
                   scraped, unique, dups, useCustom, customList, i, j, newB, updB, failed,
                   skipped, enhanced, existing, catId, isClosed, emitted, delivered,
                   aborted, abortedAt, outerError, response, catVars, libVars>>

\* faulty variant: an invalid url is counted as failed, without an event
StreamSkipCountsFailed ==
    /\ kind = "stream" /\ pc = "invalid"
    /\ failed' = failed + 1
    /\ i' = i + 1
    /\ pc' = "loop"
    /\ UNCHANGED <<bookmarks, category, sessions, runNo, kind, parsed, hasRootList, sleeps,
                   scraped, unique, dups, useCustom, customList, j, newB, updB, skipped,
                   enhanced, existing, catId, isClosed, emitted, delivered, aborted,
                   abortedAt, outerError, response, catVars, libVars>>

\* validateUrl answered false: skipped++, the "skipped" event, next bookmark
StreamSkipInvalid ==
    /\ kind = "stream" /\ pc = "invalid"
    /\ skipped' = skipped + 1
    /\ SendEvents(<<SkippedEv(unique[i + 1].url)>>)
    /\ i' = i + 1
    /\ pc' = "loop"
    /\ UNCHANGED <<bookmarks, category, sessions, runNo, kind, parsed, hasRootList, sleeps, scraped, unique, dups,
                   useCustom, customList, j, newB, updB, failed, enhanced, existing,
                   catId, isClosed, aborted, abortedAt, outerError, response, catVars, libVars>>

\* faulty variant: no catch in the loop body, the exception reaches the
\* handler's outer catch
BookmarkCatchEscapes ==
    /\ OuterCatch("bookmark")
    /\ scraped' = "none"
    /\ UNCHANGED <<failed, i>>

\* the catch of the loop body: failed++, next bookmark
BookmarkCatch ==
    /\ failed' = failed + 1
    /\ i' = i + 1
    /\ pc' = "loop"
    /\ scraped' = "none"
    /\ UNCHANGED <<outerError, isClosed, emitted, delivered>>

\* validateUrl answered true: scrape, analyze, ensureCategoryByName
StreamCategorize ==
    /\ kind = "stream" /\ pc = "scrape"
    /\ \E throws \in BOOLEAN, fetched \in BOOLEAN, name \in {PresetChild, Other} :
          IF throws
          THEN /\ BookmarkCatch
               /\ UNCHANGED <<category, catId>>
          ELSE /\ scraped' = IF fetched THEN "meta" ELSE "null"
               /\ category' = ensureCategoryByName(category, name)
               /\ catId' = name
               /\ pc' = "find"
               /\ UNCHANGED <<failed, i, outerError, isClosed, emitted, delivered>>
    /\ UNCHANGED <<bookmarks, sessions, runNo, kind, parsed, hasRootList, sleeps, unique, dups, useCustom,
                   customList, j, newB, updB, skipped, enhanced, existing, aborted,
                   abortedAt, response, catVars, libVars>>

\* faulty variant: the lookup never finds the row
StreamFindMiss ==
    /\ kind = "stream" /\ pc = "find"
    /\ existing' = FALSE
    /\ pc' = "write"
    /\ UNCHANGED <<bookmarks, category, sessions, runNo, kind, parsed, hasRootList, sleeps,
                   scraped, unique, dups, useCustom, customList, i, j, newB, updB, failed,
                   skipped, enhanced, catId, isClosed, emitted, delivered, aborted,
                   abortedAt, outerError, response, catVars, libVars>>

\* prisma.bookmark.findUnique({where: {url: normalizedUrl}})
StreamFind ==
    /\ kind = "stream" /\ pc = "find"
    /\ \E throws \in BOOLEAN :
          IF throws
          THEN /\ BookmarkCatch
               /\ UNCHANGED existing
          ELSE /\ existing' = (normalizeUrl(unique[i + 1].url) \in DOMAIN bookmarks)
               /\ pc' = "write"
               /\ UNCHANGED <<failed, i, outerError, isClosed, emitted, delivered, scraped>>
    /\ UNCHANGED <<bookmarks, category, sessions, runNo, kind, parsed, hasRootList, sleeps, unique, dups,
                   useCustom, customList, j, newB, updB, skipped, enhanced, catId,
                   aborted, abortedAt, response, catVars, libVars>>

\* prisma.bookmark.update or .create; create fails on a stored url.  In the
\* default path the write is followed by the crawl delay when it closes a
\* group of CRAWL_BATCH_SIZE and more bookmarks follow.
StreamWrite ==
    /\ kind = "stream" /\ pc = "write"
    /\ LET b   == unique[i + 1]
           url == normalizeUrl(b.url)
       IN  \E dbError \in BOOLEAN :
             IF dbError \/ (~existing /\ url \in DOMAIN bookmarks)
             THEN /\ BookmarkCatch
                  /\ UNCHANGED <<bookmarks, newB, updB, sleeps>>
             ELSE /\ bookmarks' = StoreBookmark(bookmarks, url, b, catId)
                  /\ IF existing
                     THEN updB' = updB + 1 /\ UNCHANGED newB
                     ELSE newB' = newB + 1 /\ UNCHANGED updB
                  /\ sleeps' = IF ~CustomMode /\ (i + 1) % CRAWL_BATCH_SIZE = 0
                                  /\ i + 1 < Len(unique)
                               THEN sleeps + 1 ELSE sleeps
                  /\ scraped' = "none"
                  /\ i' = i + 1
                  /\ pc' = "loop"
                  /\ UNCHANGED <<failed, outerError, isClosed, emitted, delivered>>
    /\ UNCHANGED <<category, sessions, runNo, kind, parsed, hasRootList, unique, dups, useCustom,
                   customList, j, skipped, enhanced, existing, catId, aborted,
                   abortedAt, response, catVars, libVars>>

\* After the loop: the session row, "complete", and the finally's close
StreamFinish ==
    /\ kind = "stream" /\ pc = "loop" /\ i = Len(unique)
    /\ \E throws \in BOOLEAN :
          IF throws
          THEN /\ OuterCatch("importSession.create")
               /\ UNCHANGED sessions
          ELSE /\ sessions' = Append(sessions,
                     SessionRow(Len(parsed), newB + updB, failed, SessionSkipped(skipped, dups)))
               /\ SendEvents(<<Ev("complete", "")>>)
               /\ isClosed' = TRUE
               /\ pc' = "done"
               /\ UNCHANGED outerError
    /\ UNCHANGED <<bookmarks, category, runNo, kind, parsed, hasRootList, sleeps, scraped, unique, dups, useCustom,
                   customList, i, j, newB, updB, failed, skipped, enhanced, existing,
                   catId, aborted, abortedAt, response, catVars, libVars>>

\* the client's handleCancel: the fetch is aborted, the stream's consumer is gone
Abort ==
    /\ kind = "stream" /\ ~Idle /\ ~aborted
    /\ aborted' = TRUE
    /\ abortedAt' = i
    /\ UNCHANGED <<bookmarks, category, sessions, runNo, kind, pc, parsed, hasRootList, sleeps, scraped, unique, dups,
                   useCustom, customList, i, j, newB, updB, failed, skipped, enhanced,
                   existing, catId, isClosed, emitted, delivered, outerError, response,
                   catVars, libVars>>

---------------------------------------------------------------------------
(* The batch import endpoint (JSON response, batches of BATCH_SIZE) *)

Min(a, b) == IF a < b THEN a ELSE b

StreamOnly == <<useCustom, customList, isClosed, emitted, delivered, aborted, abortedAt>>

\* a request answered without a stream: no events, nothing to close
PlainRequest(k, fs, file) ==
    /\ ResetLocals(k, IF fs = "ok" THEN file ELSE <<>>)
    /\ useCustom' = FALSE /\ isClosed' = FALSE
    /\ hasRootList' = TRUE
    /\ emitted' = <<>> /\ delivered' = <<>>

\* the handler's outer catch: a 500 response
PlainCatch(op) ==
    /\ outerError' = op
    /\ response' = 500
    /\ pc' = "done"

BatchRequest ==
    /\ Idle /\ runNo < MaxRuns
    /\ \E fs \in FileStates, file \in Files :
          /\ PlainRequest("batch", fs, file)
          /\ IF fs = "ok"
             THEN /\ unique' = deduplicateBookmarks(file).unique
                  /\ dups' = deduplicateBookmarks(file).duplicatesInFile
                  /\ pc' = "bSetup"
             ELSE /\ unique' = <<>> /\ dups' = 0
                  /\ pc' = "done"
          /\ response' = IF fs = "ok" THEN 0 ELSE 400
    /\ UNCHANGED <<bookmarks, category, sessions, catVars, libVars>>

BatchSetup ==
    /\ kind = "batch" /\ pc = "bSetup"
    /\ \E fail \in BOOLEAN :
          IF fail
          THEN /\ PlainCatch("ensureDefaultCategories")
               /\ UNCHANGED category
          ELSE /\ category' = ensureDefaultCategories(category)
               /\ pc' = "bEnhance"
               /\ UNCHANGED <<outerError, response>>
    /\ UNCHANGED <<bookmarks, sessions, runNo, kind, parsed, hasRootList, sleeps, scraped, unique, dups, i, j, newB,
                   updB, failed, skipped, enhanced, existing, catId, StreamOnly, catVars, libVars>>

RECURSIVE Keep(_, _, _)
\* the elements of s whose positions are not in drop, in order
Keep(s, drop, k) ==
    IF k > Len(s) THEN <<>>
    ELSE (IF k \in drop THEN <<>> ELSE <<s[k]>>) \o Keep(s, drop, k + 1)

\* processBookmarkBatch on the next slice: an invalid url is skipped, every
\* other bookmark is returned (enhanced, or as it was if the enhancement threw)
BatchEnhance ==
    /\ kind = "batch" /\ pc = "bEnhance" /\ i < Len(unique)
    /\ LET batch == SubSeq(unique, i + 1, Min(i + BATCH_SIZE, Len(unique)))
       IN  \E invalid \in SUBSET (1..Len(batch)) :
             /\ enhanced' = Keep(batch, invalid, 1)
             /\ skipped' = skipped + Cardinality(invalid)
    /\ j' = 0
    /\ pc' = "bStore"
    /\ UNCHANGED <<bookmarks, category, sessions, runNo, kind, parsed, hasRootList, sleeps, scraped, unique, dups, i,
                   newB, updB, failed, existing, catId, outerError, response,
                   StreamOnly, catVars, libVars>>

\* per stored bookmark: the empty-url check and ensureCategoryByName, both
\* before the try
BatchCategorize ==
    /\ kind = "batch" /\ pc = "bStore" /\ j < Len(enhanced)
    /\ LET b == enhanced[j + 1]
       IN  IF b.url = EmptyUrl
           THEN /\ failed' = failed + 1 /\ j' = j + 1
                /\ UNCHANGED <<category, catId, pc, outerError, response>>
           ELSE \E throws \in BOOLEAN, name \in {PresetChild, Other} :
                  IF throws
                  THEN /\ PlainCatch("ensureCategoryByName")
                       /\ UNCHANGED <<category, catId, failed, j>>
                  ELSE /\ category' = ensureCategoryByName(category, name)
                       /\ catId' = name
                       /\ pc' = "bFind"
                       /\ UNCHANGED <<failed, j, outerError, response>>
    /\ UNCHANGED <<bookmarks, sessions, runNo, kind, parsed, hasRootList, sleeps, scraped, unique, dups, i, newB,
                   updB, skipped, enhanced, existing, StreamOnly, catVars, libVars>>

\* the catch around the store: failed += 1, next bookmark of the batch
BatchCatch ==
    /\ failed' = failed + 1
    /\ j' = j + 1
    /\ pc' = "bStore"

BatchFind ==
    /\ kind = "batch" /\ pc = "bFind"
    /\ \E throws \in BOOLEAN :
          IF throws
          THEN /\ BatchCatch
               /\ UNCHANGED existing
          ELSE /\ existing' = (normalizeUrl(enhanced[j + 1].url) \in DOMAIN bookmarks)
               /\ pc' = "bWrite"
               /\ UNCHANGED <<failed, j>>
    /\ UNCHANGED <<bookmarks, category, sessions, runNo, kind, parsed, hasRootList, sleeps, scraped, unique, dups, i,
                   newB, updB, skipped, enhanced, catId, outerError, response,
                   StreamOnly, catVars, libVars>>

BatchWrite ==
    /\ kind = "batch" /\ pc = "bWrite"
    /\ LET b   == enhanced[j + 1]
           url == normalizeUrl(b.url)
       IN  \E dbError \in BOOLEAN :
             IF dbError \/ (~existing /\ url \in DOMAIN bookmarks)
             THEN /\ BatchCatch
                  /\ UNCHANGED <<bookmarks, newB, updB>>
             ELSE /\ bookmarks' = StoreBookmark(bookmarks, url, b, catId)
                  /\ IF existing
                     THEN updB' = updB + 1 /\ UNCHANGED newB
                     ELSE newB' = newB + 1 /\ UNCHANGED updB
                  /\ j' = j + 1
                  /\ pc' = "bStore"
                  /\ UNCHANGED failed
    /\ UNCHANGED <<category, sessions, runNo, kind, parsed, hasRootList, sleeps, scraped, unique, dups, i, skipped,
                   enhanced, existing, catId, outerError, response, StreamOnly, catVars, libVars>>

\* end of the inner loop: the delay between batches, the outer loop's
\* i += BATCH_SIZE
BatchNext ==
    /\ kind = "batch" /\ pc = "bStore" /\ j = Len(enhanced)
    /\ sleeps' = IF i + BATCH_SIZE < Len(unique) THEN sleeps + 1 ELSE sleeps
    /\ i' = i + BATCH_SIZE
    /\ pc' = "bEnhance"
    /\ UNCHANGED <<bookmarks, category, sessions, runNo, kind, parsed, hasRootList, scraped, unique, dups, j,
                   newB, updB, failed, skipped, enhanced, existing, catId, outerError,
                   response, StreamOnly, catVars, libVars>>

BatchFinish ==
    /\ kind = "batch" /\ pc = "bEnhance" /\ i >= Len(unique)
    /\ \E throws \in BOOLEAN :
          IF throws
          THEN /\ PlainCatch("importSession.create")
               /\ UNCHANGED sessions
          ELSE /\ sessions' = Append(sessions,
                     SessionRow(Len(parsed), newB + updB, failed, skipped + dups))
               /\ response' = 200
               /\ pc' = "done"
               /\ UNCHANGED outerError
    /\ UNCHANGED <<bookmarks, category, runNo, kind, parsed, hasRootList, sleeps, scraped, unique, dups, i, j, newB,
                   updB, failed, skipped, enhanced, existing, catId, StreamOnly, catVars, libVars>>

---------------------------------------------------------------------------
(* The simple import endpoint: no dedupe, upsert keyed by the url as written *)

SimpleRequest ==
    /\ Idle /\ runNo < MaxRuns
    /\ \E fs \in FileStates, file \in Files :
          /\ PlainRequest("simple", fs, file)
          /\ unique' = IF fs = "ok" THEN file ELSE <<>>
          /\ dups' = 0
          /\ pc' = IF fs = "ok" THEN "sSetup" ELSE "done"
          /\ response' = IF fs = "ok" THEN 0 ELSE 400
    /\ UNCHANGED <<bookmarks, category, sessions, catVars, libVars>>

SimpleSetup ==
    /\ kind = "simple" /\ pc = "sSetup"
    /\ \E fail \in BOOLEAN :
          IF fail
          THEN /\ PlainCatch("ensureDefaultCategories")
               /\ UNCHANGED category
          ELSE /\ category' = ensureDefaultCategories(category)
               /\ pc' = "sLoop"
               /\ UNCHANGED <<outerError, response>>
    /\ UNCHANGED <<bookmarks, sessions, runNo, kind, parsed, hasRootList, sleeps, scraped, unique, dups, i, j, newB,
                   updB, failed, skipped, enhanced, existing, catId, StreamOnly, catVars, libVars>>

SimpleCategorize ==
    /\ kind = "simple" /\ pc = "sLoop" /\ i < Len(parsed)
    /\ LET b == parsed[i + 1]
       IN  IF b.url = EmptyUrl
           THEN /\ failed' = failed + 1 /\ i' = i + 1
                /\ UNCHANGED <<category, catId, pc, outerError, response>>
           ELSE \E throws \in BOOLEAN, name \in {PresetChild, Other} :
                  IF throws
                  THEN /\ PlainCatch("ensureCategoryByName")
                       /\ UNCHANGED <<category, catId, failed, i>>
                  ELSE /\ category' = ensureCategoryByName(category, name)
                       /\ catId' = name
                       /\ pc' = "sUpsert"
                       /\ UNCHANGED <<failed, i, outerError, response>>
    /\ UNCHANGED <<bookmarks, sessions, runNo, kind, parsed, hasRootList, sleeps, scraped, unique, dups, j, newB,
                   updB, skipped, enhanced, existing, StreamOnly, catVars, libVars>>

\* prisma.bookmark.upsert({where: {url: bookmark.url}, ...})
SimpleUpsert ==
    /\ kind = "simple" /\ pc = "sUpsert"
    /\ LET b == parsed[i + 1]
       IN  \E dbError \in BOOLEAN :
             IF dbError
             THEN /\ failed' = failed + 1
                  /\ UNCHANGED <<bookmarks, newB>>
             ELSE /\ bookmarks' = StoreBookmark(bookmarks, b.url, b, catId)
                  /\ newB' = newB + 1
                  /\ UNCHANGED failed
    /\ i' = i + 1
    /\ pc' = "sLoop"
    /\ UNCHANGED <<category, sessions, runNo, kind, parsed, hasRootList, sleeps, scraped, unique, dups, j, updB,
                   skipped, enhanced, existing, catId, outerError, response,
                   StreamOnly, catVars, libVars>>

SimpleFinish ==
    /\ kind = "simple" /\ pc = "sLoop" /\ i = Len(parsed)
    /\ \E throws \in BOOLEAN :
          IF throws
          THEN /\ PlainCatch("importSession.create")
               /\ UNCHANGED sessions
          ELSE /\ sessions' = Append(sessions, SessionRow(Len(parsed), newB, failed, 0))
               /\ response' = 200
               /\ pc' = "done"
               /\ UNCHANGED outerError
    /\ UNCHANGED <<bookmarks, category, runNo, kind, parsed, hasRootList, sleeps, scraped, unique, dups, i, j, newB,
                   updB, failed, skipped, enhanced, existing, catId, StreamOnly, catVars, libVars>>

---------------------------------------------------------------------------
(* Specification of the import endpoints *)

EmptyTable == [n \in {} |-> Row(NULL, <<>>)]
EmptyBookmarks == [u \in {} |-> BookmarkRow(Bm(EmptyUrl, "", ""), NULL)]

MkTree(nodes, parent, kw) ==
    buildHierarchyFromFlat(nodes,
        [n \in Cats |-> IF n \in DOMAIN parent THEN parent[n] ELSE NULL],
        [n \in Cats |-> IF n \in DOMAIN kw THEN kw[n] ELSE <<>>])

\* a custom taxonomy as the analyze endpoint returns it: 4 under 3
SmallTree == MkTree({3, 4}, (3 :> NULL) @@ (4 :> 3), (3 :> <<"x">>) @@ (4 :> <<"y">>))

NoSnapshot == [category |-> EmptyTable, bookmarks |-> EmptyBookmarks, tree |-> SmallTree]

InitStore ==
    /\ bookmarks = EmptyBookmarks
    /\ category = EmptyTable
    /\ sessions = <<>>

InitImport ==
    /\ runNo = 0 /\ kind = "none" /\ pc = "idle"
    /\ parsed = <<>> /\ unique = <<>> /\ dups = 0
    /\ hasRootList = TRUE /\ sleeps = 0 /\ scraped = "none"
    /\ useCustom = FALSE /\ customList = <<>>
    /\ i = 0 /\ j = 0 /\ newB = 0 /\ updB = 0 /\ failed = 0 /\ skipped = 0
    /\ enhanced = <<>> /\ existing = FALSE /\ catId = NULL
    /\ isClosed = FALSE /\ emitted = <<>> /\ delivered = <<>>
    /\ aborted = FALSE /\ abortedAt = -1
    /\ outerError = "" /\ response = 0

InitCat(t) ==
    /\ tree = t
    /\ lastOp = [op |-> "none"]
    /\ before = NoSnapshot
    /\ mergePc = "idle" /\ mergeArgs = [sourceId |-> NULL, targetId |-> NULL, mergedKeywords |-> <<>>]
    /\ bulkPc = "idle" /\ bulkArgs = [replaceExisting |-> FALSE, sorted |-> <<>>, k |-> 0]
    /\ ops = 0

NoCall == [fn |-> "none"]

NoResponse == [success |-> FALSE, text |-> <<>>]

InitLlm ==
    /\ llmPc = "idle" /\ llmIn = NoCall /\ llmI = 0 /\ inFlight = 0
    /\ geminiResponse = NoResponse
    /\ allAssignments = <<>> /\ allUnassigned = <<>>
    /\ log = <<>> /\ llmRuns = 0

InitFn == fnIn = NoCall /\ fnOut = NoCall

InitLib == InitLlm /\ InitFn

Init == InitStore /\ InitImport /\ InitCat(SmallTree) /\ InitLib

Next ==
    \/ StreamRequest \/ StreamCustomSetup \/ StreamDefaultSetup \/ StreamLoopHead
    \/ StreamValidate \/ StreamSkipInvalid \/ StreamCategorize \/ StreamFind \/ StreamWrite
    \/ StreamFinish \/ Abort
    \/ BatchRequest \/ BatchSetup \/ BatchEnhance \/ BatchCategorize \/ BatchFind
    \/ BatchWrite \/ BatchNext \/ BatchFinish
    \/ SimpleRequest \/ SimpleSetup \/ SimpleCategorize \/ SimpleUpsert \/ SimpleFinish

Spec == Init /\ [][Next]_vars

---------------------------------------------------------------------------
(* Specifications of one streaming import over a wider range of uploads.   *)
(*   SpecFold   urls written with upper case, default ports, trailing      *)
(*              slashes and queries, and a second import that writes to    *)
(*              the same store while this one runs.                        *)
(*   SpecCrawl  files long enough for the crawl delay.                     *)

MaxFoldLen  == 3     \* entries in a file of url variants
MaxCrawlLen == 6     \* entries in the file of distinct urls

U_root      == Url("x.com", <<>>, TRUE)                            \* https://x.com/
U_rootBare  == Url("x.com", <<>>, FALSE)                           \* https://x.com
U_rootUpper == UrlFull("HTTPS", "X.COM", "", <<>>, TRUE, "")       \* HTTPS://X.COM/
U_port      == UrlFull("https", "x.com", "443", <<"a">>, TRUE, "q=1")  \* https://x.com:443/a/?q=1
U_upperPath == Url("x.com", <<"A">>, FALSE)                        \* https://x.com/A

FoldEntries == { Bm(U_root, "r1", ""), Bm(U_rootBare, "r2", ""), Bm(U_rootUpper, "r3", ""),
                 Bm(U_port, "p", ""), Bm(U_upperPath, "A", ""),
                 Bm(U_a, "t1", ""), Bm(U_aSlash, "t2", "d") }

PathNames == <<"p1", "p2", "p3", "p4", "p5", "p6", "p7", "p8">>

\* n entries with pairwise distinct urls https://x.com/p1 .. https://x.com/pn
CrawlFile(n) == [k \in 1..n |-> Bm(Url("x.com", <<PathNames[k]>>, FALSE), PathNames[k], "")]

FoldUploads ==
    {Html(TRUE, f) : f \in SeqsUpTo(FoldEntries, MaxFoldLen)} \cup {Html(FALSE, <<>>)}

CrawlUploads == {Html(TRUE, CrawlFile(n)) : n \in (MaxCrawlLen - 1)..MaxCrawlLen}

\* an overlapping import creates the row for the url this run has just looked
\* up and not found
OverlappingInsert ==
    /\ kind = "stream" /\ pc = "write" /\ ~existing
    /\ LET url == normalizeUrl(unique[i + 1].url)
       IN  /\ url \notin DOMAIN bookmarks
           /\ bookmarks' = StoreBookmark(bookmarks, url, Bm(url, "other import", ""), NULL)
    /\ UNCHANGED <<category, sessions, importVars, catVars, libVars>>

StreamSteps ==
    \/ StreamCustomSetup \/ StreamDefaultSetup \/ StreamLoopHead
    \/ StreamValidate \/ StreamSkipInvalid \/ StreamCategorize \/ StreamFind \/ StreamWrite
    \/ StreamFinish

NextFold == StreamRequestFrom(FoldUploads, 1) \/ StreamSteps \/ OverlappingInsert

SpecFold == Init /\ [][NextFold]_vars

NextCrawl == StreamRequestFrom(CrawlUploads, 1) \/ StreamSteps

SpecCrawl == Init /\ [][NextCrawl]_vars

---------------------------------------------------------------------------
(* The hierarchy editor: moveCategory and mergeCategories on the forest *)

Thrown(t) == [ok |-> FALSE, tree |-> t]
Returned(t) == [ok |-> TRUE, tree |-> t]

\* the walk up from newParentId that looks for categoryId
RECURSIVE OnPathUp(_, _, _, _)
OnPathUp(t, current, categoryId, fuel) ==
    IF current = NULL \/ current \notin t.nodes \/ fuel = 0 THEN FALSE
    ELSE IF current = categoryId THEN TRUE
    ELSE OnPathUp(t, t.parent[current], categoryId, fuel - 1)

moveCategory(t, categoryId, newParentId) ==
    IF categoryId \notin t.nodes THEN Thrown(t)
    ELSE IF newParentId # NULL /\ newParentId \in t.nodes
            /\ t.level[newParentId] >= MAX_HIERARCHY_DEPTH - 1 THEN Thrown(t)
    ELSE IF newParentId # NULL /\ OnPathUp(t, newParentId, categoryId, NumCats + 1) THEN Thrown(t)
    ELSE Returned(buildHierarchyFromFlat(t.nodes,
                      [t.parent EXCEPT ![categoryId] = newParentId], t.keywords))

mergeCategories(t, sourceId, targetId) ==
    IF sourceId \notin t.nodes \/ targetId \notin t.nodes THEN Thrown(t)
    ELSE LET kw  == [t.keywords EXCEPT
                        ![targetId] = UnionKeywords(t.keywords[targetId], t.keywords[sourceId])]
             par == [n \in Cats |-> IF n \in t.nodes /\ t.parent[n] = sourceId
                                    THEN targetId ELSE t.parent[n]]
         IN  Returned(buildHierarchyFromFlat(t.nodes \ {sourceId}, par, kw))

Snapshot == [category |-> category, bookmarks |-> bookmarks, tree |-> tree]

StoreIdle == mergePc \in {"idle", "done", "failed"} /\ bulkPc \in {"idle", "done", "failed"}

EditorMove ==
    /\ ops < MaxCatOps /\ StoreIdle
    /\ \E c \in tree.nodes, p \in tree.nodes \cup {NULL} :
          LET r == moveCategory(tree, c, p)
          IN  /\ tree' = r.tree
              /\ lastOp' = [op |-> "move", categoryId |-> c, newParentId |-> p, ok |-> r.ok]
    /\ before' = Snapshot
    /\ ops' = ops + 1
    /\ UNCHANGED <<bookmarks, category, sessions, importVars, libVars, mergePc, mergeArgs,
                   bulkPc, bulkArgs>>

EditorMerge ==
    /\ ops < MaxCatOps /\ StoreIdle
    /\ \E src \in tree.nodes, tgt \in tree.nodes :
          /\ src # tgt
          /\ LET r == mergeCategories(tree, src, tgt)
             IN  /\ tree' = r.tree
                 /\ lastOp' = [op |-> "mergeCategories", sourceId |-> src, targetId |-> tgt,
                               ok |-> r.ok]
    /\ before' = Snapshot
    /\ ops' = ops + 1
    /\ UNCHANGED <<bookmarks, category, sessions, importVars, libVars, mergePc, mergeArgs,
                   bulkPc, bulkArgs>>

---------------------------------------------------------------------------
(* The merge endpoint: four storage calls, one after the other *)

\* prisma.category.delete: the row goes; referencing foreign keys are set NULL
DeleteCategory(tbl, id) ==
    [n \in DOMAIN tbl \ {id} |->
        IF tbl[n].parentId = id THEN [tbl[n] EXCEPT !.parentId = NULL] ELSE tbl[n]]

UnlinkBookmarks(bm, id) ==
    [u \in DOMAIN bm |->
        IF bm[u].categoryId = id THEN [bm[u] EXCEPT !.categoryId = NULL] ELSE bm[u]]

MoveBookmarks(bm, from, to) ==
    [u \in DOMAIN bm |->
        IF bm[u].categoryId = from THEN [bm[u] EXCEPT !.categoryId = to] ELSE bm[u]]

MoveChildren(tbl, from, to) ==
    [n \in DOMAIN tbl |->
        IF tbl[n].parentId = from THEN [tbl[n] EXCEPT !.parentId = to] ELSE tbl[n]]

\* the request checks, the two findUnique, the merged keyword list
MergeStart ==
    /\ ops < MaxCatOps /\ StoreIdle
    /\ \E src \in Cats, tgt \in Cats :
          /\ src # tgt
          /\ lastOp' = [op |-> "merge", sourceId |-> src, targetId |-> tgt, ok |-> FALSE,
                        at |-> ops + 1]
          /\ IF src \in DOMAIN category /\ tgt \in DOMAIN category
             THEN /\ mergeArgs' = [sourceId |-> src, targetId |-> tgt,
                                   mergedKeywords |->
                                     UnionKeywords(category[tgt].keywords, category[src].keywords)]
                  /\ mergePc' = "moveBookmarks"
             ELSE /\ mergeArgs' = [sourceId |-> src, targetId |-> tgt, mergedKeywords |-> <<>>]
                  /\ mergePc' = "failed"
    /\ before' = Snapshot
    /\ ops' = ops + 1
    /\ UNCHANGED <<bookmarks, category, sessions, importVars, libVars, tree, bulkPc, bulkArgs>>

MergeFail ==
    /\ mergePc' = "failed"
    /\ UNCHANGED <<bookmarks, category, lastOp>>

MergeMoveBookmarks ==
    /\ mergePc = "moveBookmarks"
    /\ \E throws \in BOOLEAN :
          IF throws THEN MergeFail
          ELSE /\ bookmarks' = MoveBookmarks(bookmarks, mergeArgs.sourceId, mergeArgs.targetId)
               /\ mergePc' = "moveChildren"
               /\ UNCHANGED <<category, lastOp>>
    /\ UNCHANGED <<sessions, importVars, libVars, tree, before, mergeArgs, bulkPc, bulkArgs, ops>>

MergeMoveChildren ==
    /\ mergePc = "moveChildren"
    /\ \E throws \in BOOLEAN :
          IF throws THEN MergeFail
          ELSE /\ category' = MoveChildren(category, mergeArgs.sourceId, mergeArgs.targetId)
               /\ mergePc' = "updateKeywords"
               /\ UNCHANGED <<bookmarks, lastOp>>
    /\ UNCHANGED <<sessions, importVars, libVars, tree, before, mergeArgs, bulkPc, bulkArgs, ops>>

MergeUpdateKeywords ==
    /\ mergePc = "updateKeywords"
    /\ \E throws \in BOOLEAN :
          IF throws \/ mergeArgs.targetId \notin DOMAIN category THEN MergeFail
          ELSE /\ category' = [category EXCEPT
                                  ![mergeArgs.targetId].keywords = mergeArgs.mergedKeywords]
               /\ mergePc' = "deleteSource"
               /\ UNCHANGED <<bookmarks, lastOp>>
    /\ UNCHANGED <<sessions, importVars, libVars, tree, before, mergeArgs, bulkPc, bulkArgs, ops>>

MergeDeleteSource ==
    /\ mergePc = "deleteSource"
    /\ \E throws \in BOOLEAN :
          IF throws \/ mergeArgs.sourceId \notin DOMAIN category THEN MergeFail
          ELSE /\ category' = DeleteCategory(category, mergeArgs.sourceId)
               /\ bookmarks' = UnlinkBookmarks(bookmarks, mergeArgs.sourceId)
               /\ mergePc' = "done"
               /\ lastOp' = [lastOp EXCEPT !.ok = TRUE]
    /\ UNCHANGED <<sessions, importVars, libVars, tree, before, mergeArgs, bulkPc, bulkArgs, ops>>

---------------------------------------------------------------------------
(* The bulk-create endpoint: optional replace-all, then one upsert per node *)

RECURSIVE SortByLevel(_, _, _)
\* flatCategories.sort((a, b) => a.level - b.level): stable, lowest level first
SortByLevel(flat, level, l) ==
    IF l > NumCats THEN <<>>
    ELSE SelectSeq(flat, LAMBDA n : level[n] = l) \o SortByLevel(flat, level, l + 1)

\* the level values the nodes of a request body can carry
CarriedLevels(t) ==
    {l \in [Cats -> 0..(MAX_HIERARCHY_DEPTH - 1)] : \A n \in Cats \ t.nodes : l[n] = 0}

\* the request arrives: body.categories is the forest, with the levels the
\* editor computed (anyLevel false) or with any level values
BulkStartFrom(anyLevel, maxOps) ==
    /\ ops < maxOps /\ StoreIdle
    /\ \E replaceExisting \in BOOLEAN :
       \E level \in (IF anyLevel THEN CarriedLevels(tree) ELSE {tree.level}) :
          /\ lastOp' = [op |-> "bulk", replaceExisting |-> replaceExisting, ok |-> FALSE,
                        at |-> ops + 1]
          /\ IF tree.nodes = {}
             THEN /\ bulkPc' = "failed"
                  /\ bulkArgs' = [replaceExisting |-> replaceExisting, sorted |-> <<>>, k |-> 0]
             ELSE /\ bulkArgs' = [replaceExisting |-> replaceExisting,
                                  sorted |-> SortByLevel(flattenHierarchy(tree), level, 0),
                                  k |-> 0]
                  /\ bulkPc' = IF replaceExisting THEN "unlink" ELSE "upsert"
    /\ before' = Snapshot
    /\ ops' = ops + 1
    /\ UNCHANGED <<bookmarks, category, sessions, importVars, libVars, tree, mergePc, mergeArgs>>

BulkStart == BulkStartFrom(FALSE, MaxCatOps)

BulkFail ==
    /\ bulkPc' = "failed"
    /\ UNCHANGED <<bookmarks, category, bulkArgs, lastOp>>

\* bookmark.updateMany({where: {categoryId: {not: null}}, data: {categoryId: null}})
BulkUnlink ==
    /\ bulkPc = "unlink"
    /\ \E throws \in BOOLEAN :
          IF throws THEN BulkFail
          ELSE /\ bookmarks' = [u \in DOMAIN bookmarks |->
                                  [bookmarks[u] EXCEPT !.categoryId = NULL]]
               /\ bulkPc' = "deleteMany"
               /\ UNCHANGED <<category, bulkArgs, lastOp>>
    /\ UNCHANGED <<sessions, importVars, libVars, tree, before, mergePc, mergeArgs, ops>>

\* category.deleteMany({})
BulkDeleteMany ==
    /\ bulkPc = "deleteMany"
    /\ \E throws \in BOOLEAN :
          IF throws THEN BulkFail
          ELSE /\ category' = EmptyTable
               /\ bookmarks' = [u \in DOMAIN bookmarks |->
                                  [bookmarks[u] EXCEPT !.categoryId = NULL]]
               /\ bulkPc' = "upsert"
               /\ UNCHANGED <<bulkArgs, lastOp>>
    /\ UNCHANGED <<sessions, importVars, libVars, tree, before, mergePc, mergeArgs, ops>>

\* one turn of the loop over sortedCategories: the parent is resolved through
\* categoryMap (the nodes already stored), the row found by slug is updated,
\* or a new row is created
BulkUpsert ==
    /\ bulkPc = "upsert"
    /\ LET cat      == bulkArgs.sorted[bulkArgs.k + 1]
           mapped   == Range(SubSeq(bulkArgs.sorted, 1, bulkArgs.k))
           parentId == tree.parent[cat]
           resolvedParentId == IF parentId # NULL /\ parentId \in mapped THEN parentId ELSE NULL
       IN  \E throws \in BOOLEAN :
             IF throws THEN BulkFail
             ELSE /\ category' = Put(category, cat, Row(resolvedParentId, tree.keywords[cat]))
                  /\ bulkArgs' = [bulkArgs EXCEPT !.k = bulkArgs.k + 1]
                  /\ IF bulkArgs.k + 1 = Len(bulkArgs.sorted)
                     THEN bulkPc' = "done" /\ lastOp' = [lastOp EXCEPT !.ok = TRUE]
                     ELSE UNCHANGED <<bulkPc, lastOp>>
                  /\ UNCHANGED bookmarks
    /\ UNCHANGED <<sessions, importVars, libVars, tree, before, mergePc, mergeArgs, ops>>

---------------------------------------------------------------------------
(* What an import does to the category store, request by request *)

\* a streaming import given the editor's forest: createCustomCategories
ImportCustomTaxonomy ==
    /\ ops < MaxCatOps
    /\ tree.nodes # {}
    /\ category' = createCustomCategories(category, tree, Len(flattenHierarchy(tree)))
    /\ ops' = ops + 1
    /\ UNCHANGED <<bookmarks, sessions, importVars, libVars, tree, lastOp, before, mergePc,
                   mergeArgs, bulkPc, bulkArgs>>

\* one bookmark of a default-taxonomy import: ensureCategoryByName, then the
\* bookmark is stored under that category
ImportDefaultBookmark ==
    /\ ops < MaxCatOps
    /\ \E b \in Entries, name \in Cats :
          /\ category' = ensureCategoryByName(category, name)
          /\ bookmarks' = StoreBookmark(bookmarks, normalizeUrl(b.url), b, name)
    /\ ops' = ops + 1
    /\ UNCHANGED <<sessions, importVars, libVars, tree, lastOp, before, mergePc, mergeArgs,
                   bulkPc, bulkArgs>>

---------------------------------------------------------------------------
(* Specification of the category store and the editor *)

\* a discovered forest: 1 > 2 > 3 and 4 > 5
TwoChains ==
    MkTree(Cats \cap (1..5),
           (1 :> NULL) @@ (2 :> 1) @@ (3 :> 2) @@ (4 :> NULL) @@ (5 :> 4),
           (1 :> <<"x", "y">>) @@ (2 :> <<"y", "z">>) @@ (3 :> <<>>) @@ (4 :> <<"z">>)
             @@ (5 :> <<"x">>))

InitCatSpec == InitStore /\ InitImport /\ (InitCat(SmallTree) \/ InitCat(TwoChains)) /\ InitLib

NextCat ==
    \/ EditorMove \/ EditorMerge
    \/ MergeStart \/ MergeMoveBookmarks \/ MergeMoveChildren \/ MergeUpdateKeywords
    \/ MergeDeleteSource
    \/ BulkStart \/ BulkUnlink \/ BulkDeleteMany \/ BulkUpsert
    \/ ImportCustomTaxonomy \/ ImportDefaultBookmark

SpecCat == InitCatSpec /\ [][NextCat]_vars

\* one bulk create of a forest whose nodes carry any level values
NextBulk == BulkStartFrom(TRUE, 1) \/ BulkUnlink \/ BulkDeleteMany \/ BulkUpsert

SpecBulk == InitCatSpec /\ [][NextBulk]_vars

---------------------------------------------------------------------------
(* The Gemini client: batch assignment of bookmarks to categories.         *)
(* The text of an answer is a sequence of tokens: brackets, commas and     *)
(* numbers; it is the text left once blanks and markdown fences are        *)
(* stripped.                                                               *)

MaxBookmarks == 3     \* bookmarks handed to the batch assignment
BatchSize    == 2     \* the batchSize argument (50 at the call site)
MaxPairs     == 2     \* pairs in one answer of the model
MaxLlmRuns   == 1     \* client functions started
MaxKwCats    == 3     \* categories handed to the keyword generator

LB == [t |-> "[", v |-> 0]
RB == [t |-> "]", v |-> 0]
CM == [t |-> ",", v |-> 0]
Num(v) == [t |-> "num", v |-> v]

\* the categories argument: two names
CategoryNames == <<"News", "Tools">>

\* what the model may write for a bookmark index and for a category index
BookmarkIdxs == 0..MaxBookmarks
CategoryIdxs == -1..Len(CategoryNames)

RenderPair(p) == <<LB, Num(p[1]), CM, Num(p[2]), RB>>

RECURSIVE RenderPairs(_, _)
RenderPairs(ps, k) ==
    IF k > Len(ps) THEN <<>>
    ELSE (IF k > 1 THEN <<CM>> ELSE <<>>) \o RenderPair(ps[k]) \o RenderPairs(ps, k + 1)

\* the answer the prompt asks for: [[0,2],[1,5],[2,0]]
Render(ps) == <<LB>> \o RenderPairs(ps, 1) \o <<RB>>

\* the answers callGemini can return: a failure, or a text that is an answer
\* in the requested format or an answer cut off at any token
Responses ==
    {NoResponse} \cup
    UNION { { [success |-> TRUE, text |-> SubSeq(Render(ps), 1, n)] :
                n \in 1..Len(Render(ps)) } :
            ps \in SeqsUpTo(BookmarkIdxs \X CategoryIdxs, MaxPairs) }

\* jsonText.endsWith(']]')
EndsWithClose(t) == Len(t) >= 2 /\ t[Len(t)] = RB /\ t[Len(t) - 1] = RB

\* jsonText.lastIndexOf(']'), counted from 0; -1: none
LastIndexOf(t, tok) ==
    LET at == {k \in 1..Len(t) : t[k] = tok}
    IN  IF at = {} THEN -1 ELSE (CHOOSE k \in at : \A m \in at : m <= k) - 1

\* faulty variant: the text is parsed as it came
FixTruncatedOff(t) == t

\* "Try to fix truncated JSON by finding the last complete pair"
FixTruncated(t) ==
    IF EndsWithClose(t) THEN t
    ELSE LET lastComplete == LastIndexOf(t, RB)
         IN  IF lastComplete > 0 THEN SubSeq(t, 1, lastComplete + 1) \o <<RB>> ELSE t

\* JSON.parse on a token text: an array of pairs of numbers, or a SyntaxError
JSONparse(t) ==
    LET inner == Len(t) - 2
        k     == (inner + 1) \div 6
        tok(m) == t[m + 1]                    \* m counts from 1 inside the brackets
        pairAt(q) == \* the q-th pair starts at inner position 6 * (q - 1) + 1
            LET b == 6 * (q - 1)
            IN  /\ tok(b + 1) = LB /\ tok(b + 2).t = "num" /\ tok(b + 3) = CM
                /\ tok(b + 4).t = "num" /\ tok(b + 5) = RB
                /\ (q > 1 => tok(b) = CM)
        good == /\ Len(t) >= 2 /\ t[1] = LB /\ t[Len(t)] = RB
                /\ \/ inner = 0
                   \/ /\ (inner + 1) % 6 = 0
                      /\ \A q \in 1..k : pairAt(q)
    IN  IF good
        THEN [ok |-> TRUE,
              value |-> [q \in 1..(IF inner = 0 THEN 0 ELSE k) |->
                            <<tok(6 * (q - 1) + 2).v, tok(6 * (q - 1) + 4).v>>]]
        ELSE [ok |-> FALSE, value |-> <<>>]

\* categoryNames[categoryIdx]: undefined outside the array
NameAt(names, idx) == IF idx \in 0..(Len(names) - 1) THEN names[idx + 1] ELSE "undefined"

RECURSIVE ConvertPairs(_, _, _)
\* the loop over the parsed array: a pair is kept when categoryIdx < categoryNames.length
ConvertPairs(arr, names, k) ==
    IF k > Len(arr) THEN <<>>
    ELSE LET bookmarkIdx == arr[k][1]
             categoryIdx == arr[k][2]
         IN  (IF categoryIdx < Len(names)
              THEN <<[index |-> bookmarkIdx, category |-> NameAt(names, categoryIdx)]>>
              ELSE <<>>) \o ConvertPairs(arr, names, k + 1)

NullResult == [ok |-> FALSE, assignments |-> <<>>, unassigned |-> <<>>]

\* the indices startIndex .. startIndex + count - 1, in order
IndexRange(startIndex, count) == [k \in 1..count |-> startIndex + k - 1]

\* assignBatch, from the answer of callGemini on
assignBatch(resp, count, categoryNames, startIndex) ==
    IF ~resp.success THEN NullResult
    ELSE LET parsedJson == JSONparse(FixTruncated(resp.text))
         IN  IF ~parsedJson.ok THEN NullResult
             ELSE LET assignments == ConvertPairs(parsedJson.value, categoryNames, 1)
                      assignedIndices == {assignments[k].index : k \in 1..Len(assignments)}
                  IN  [ok |-> TRUE,
                       assignments |-> assignments,
                       unassigned |-> SelectSeq(IndexRange(startIndex, count),
                                                LAMBDA x : x \notin assignedIndices)]

LlmIdle == llmPc \in {"idle", "done"}

CallEv(what)   == [ev |-> "call", kind |-> what, a |-> 0, b |-> 0]
ReturnEv(what) == [ev |-> "return", kind |-> what, a |-> 0, b |-> 0]
DelayEv        == [ev |-> "delay", kind |-> "keywords", a |-> 100, b |-> 0]
\* onProgress(processed, total)
ProgressEv(processed, total) == [ev |-> "progress", kind |-> "assign", a |-> processed, b |-> total]

OtherVars == <<bookmarks, category, sessions, importVars, catVars, fnVars>>

\* batchAssignBookmarksToCategories is called with n bookmarks
AssignStartUpTo(maxRuns) ==
    /\ LlmIdle /\ llmRuns < maxRuns
    /\ \E n \in 0..MaxBookmarks :
          llmIn' = [fn |-> "batchAssign", n |-> n, batchSize |-> BatchSize,
                    categoryNames |-> CategoryNames]
    /\ llmI' = 0 /\ allAssignments' = <<>> /\ allUnassigned' = <<>>
    /\ log' = <<>> /\ geminiResponse' = NoResponse
    /\ llmPc' = "asLoop"
    /\ llmRuns' = llmRuns + 1
    /\ UNCHANGED <<inFlight, OtherVars>>

AssignStart == AssignStartUpTo(MaxLlmRuns)

\* the head of the loop over the batches and onProgress(i, length) of a
\* batch; after the last batch, onProgress(length, length) and the return
AssignProgress ==
    /\ llmPc = "asLoop"
    /\ IF llmI < llmIn.n
       THEN /\ log' = Append(log, ProgressEv(llmI, llmIn.n))
            /\ llmPc' = "asCall"
       ELSE /\ log' = Append(log, ProgressEv(llmIn.n, llmIn.n))
            /\ llmPc' = "done"
    /\ geminiResponse' = NoResponse
    /\ UNCHANGED <<llmIn, llmI, inFlight, allAssignments, allUnassigned, llmRuns, OtherVars>>

\* assignBatch builds the prompt and calls callGemini
AssignCall ==
    /\ llmPc = "asCall"
    /\ inFlight' = inFlight + 1
    /\ log' = Append(log, CallEv("assign"))
    /\ llmPc' = "asWait"
    /\ UNCHANGED <<llmIn, llmI, geminiResponse, allAssignments, allUnassigned, llmRuns,
                   OtherVars>>

\* callGemini returns; assignBatch parses the answer and the loop keeps the
\* batch's assignments, or marks the whole batch unassigned
AssignReturnFrom(responses) ==
    /\ llmPc = "asWait"
    /\ \E resp \in responses :
          LET count == Min(llmIn.batchSize, llmIn.n - llmI)
              batchResult == assignBatch(resp, count, llmIn.categoryNames, llmI)
          IN  /\ geminiResponse' = resp
              /\ IF batchResult.ok
                 THEN /\ allAssignments' = allAssignments \o batchResult.assignments
                      /\ allUnassigned' = allUnassigned \o batchResult.unassigned
                 ELSE /\ allUnassigned' = allUnassigned \o IndexRange(llmI, count)
                      /\ UNCHANGED allAssignments
    /\ inFlight' = inFlight - 1
    /\ log' = Append(log, ReturnEv("assign"))
    /\ llmI' = llmI + llmIn.batchSize
    /\ llmPc' = "asLoop"
    /\ UNCHANGED <<llmIn, llmRuns, OtherVars>>

AssignReturn == AssignReturnFrom(Responses)

NextAssign == AssignStart \/ AssignProgress \/ AssignCall \/ AssignReturn

SpecAssign == Init /\ [][NextAssign]_vars

---------------------------------------------------------------------------
(* The other callers of callGemini: category discovery and the keyword     *)
(* generator.  One request is served at a time, so a client function       *)
(* starts when no other is running.                                        *)

MaxPipelineRuns == 3   \* client functions started, one after the other

\* a failure, and the complete answer for the first batch
FewResponses == {NoResponse, [success |-> TRUE, text |-> Render(<<<<0, 0>>, <<1, 1>>>>)]}

StartLlm(maxRuns, args, at) ==
    /\ LlmIdle /\ llmRuns < maxRuns
    /\ llmIn' = args
    /\ llmI' = 0 /\ allAssignments' = <<>> /\ allUnassigned' = <<>>
    /\ geminiResponse' = NoResponse
    /\ llmPc' = at
    /\ llmRuns' = llmRuns + 1

\* discoverCategories: with a key, analyzeBookmarksForCategories calls
\* callGemini once; without one, local clustering
DiscoverStart ==
    /\ \E available \in BOOLEAN :
          /\ StartLlm(MaxPipelineRuns, [fn |-> "discover", available |-> available],
                      IF available THEN "discWait" ELSE "done")
          /\ inFlight' = IF available THEN inFlight + 1 ELSE inFlight
          /\ log' = IF available THEN <<CallEv("discover")>> ELSE <<>>
    /\ UNCHANGED OtherVars

DiscoverReturn ==
    /\ llmPc = "discWait"
    /\ \E resp \in FewResponses : geminiResponse' = resp
    /\ inFlight' = inFlight - 1
    /\ log' = Append(log, ReturnEv("discover"))
    /\ llmPc' = "done"
    /\ UNCHANGED <<llmIn, llmI, allAssignments, allUnassigned, llmRuns, OtherVars>>

\* generateKeywordsForAllCategories over n categories, some with bookmarks
KeywordsStart ==
    /\ \E n \in 1..MaxKwCats, available \in BOOLEAN :
       \E withBookmarks \in SUBSET (1..n) :
          StartLlm(MaxPipelineRuns,
                   [fn |-> "keywords", n |-> n, available |-> available,
                    withBookmarks |-> withBookmarks], "kwLoop")
    /\ log' = <<>>
    /\ UNCHANGED <<inFlight, OtherVars>>

\* the next category: generateKeywordsForCategory calls the model when a key
\* is configured and the category has bookmarks, and extracts otherwise
KeywordLoop ==
    /\ llmPc = "kwLoop"
    /\ IF llmI >= llmIn.n
       THEN /\ llmPc' = "done"
            /\ UNCHANGED <<inFlight, log>>
       ELSE IF llmIn.available /\ (llmI + 1) \in llmIn.withBookmarks
       THEN /\ inFlight' = inFlight + 1
            /\ log' = Append(log, CallEv("keywords"))
            /\ llmPc' = "kwWait"
       ELSE /\ llmPc' = "kwDelay"
            /\ UNCHANGED <<inFlight, log>>
    /\ UNCHANGED <<llmIn, llmI, geminiResponse, allAssignments, allUnassigned, llmRuns,
                   OtherVars>>

\* generateCategoryKeywords gets its answer (on a failure the keywords are
\* extracted instead)
KeywordReturn ==
    /\ llmPc = "kwWait"
    /\ \E resp \in FewResponses : geminiResponse' = resp
    /\ inFlight' = inFlight - 1
    /\ log' = Append(log, ReturnEv("keywords"))
    /\ llmPc' = "kwDelay"
    /\ UNCHANGED <<llmIn, llmI, allAssignments, allUnassigned, llmRuns, OtherVars>>

\* faulty variant: the loop goes on without the delay
KeywordNoDelay ==
    /\ llmPc = "kwDelay"
    /\ llmI' = llmI + 1
    /\ llmPc' = "kwLoop"
    /\ UNCHANGED <<llmIn, inFlight, geminiResponse, allAssignments, allUnassigned, log,
                   llmRuns, OtherVars>>

\* results.push, then the 100 ms delay when a key is configured
KeywordDelay ==
    /\ llmPc = "kwDelay"
    /\ log' = IF llmIn.available THEN Append(log, DelayEv) ELSE log
    /\ llmI' = llmI + 1
    /\ llmPc' = "kwLoop"
    /\ UNCHANGED <<llmIn, inFlight, geminiResponse, allAssignments, allUnassigned, llmRuns,
                   OtherVars>>

NextLlm ==
    \/ DiscoverStart \/ DiscoverReturn
    \/ KeywordsStart \/ KeywordLoop \/ KeywordReturn \/ KeywordDelay
    \/ AssignStartUpTo(MaxPipelineRuns) \/ AssignProgress \/ AssignCall
    \/ AssignReturnFrom(FewResponses)

SpecLlm == Init /\ [][NextLlm]_vars

---------------------------------------------------------------------------
(* The custom-taxonomy path: the category of one bookmark.  A bookmark is  *)
(* the set of words of its text (title, description, url, folder) and its  *)
(* domain; a category of customCategoryList is [id, name, keywords].       *)

MaxListLen == 3      \* categories in customCategoryList

\* name.toLowerCase()
ToLowerCase(name) ==
    CASE name \in {"Other", "OTHER"}   -> "other"
      [] name = "Uncategorized"        -> "uncategorized"
      [] name = "Miscellaneous"        -> "miscellaneous"
      [] name \in {"Tools", "TOOLS"}   -> "tools"
      [] name = "News"                 -> "news"
      [] OTHER                         -> name

KeywordsOf(name) ==
    CASE name = "Tools" -> <<"tool", "tools">>
      [] name = "News"  -> <<"news">>
      [] OTHER          -> <<>>

TaxonomyNames == {"Tools", "News", "Other", "Uncategorized", "Miscellaneous"}

\* the lists createCustomCategories can return: distinct names, any order
CustomLists ==
    { [k \in 1..Len(names) |-> [id |-> k, name |-> names[k], keywords |-> KeywordsOf(names[k])]] :
        names \in { ns \in SeqsUpTo(TaxonomyNames, MaxListLen) :
                      Len(ns) >= 1 /\ \A a, b \in 1..Len(ns) : a # b => ns[a] # ns[b] } }

\* the text matched: its words, and the domain of its url ("": no url parsed)
BookmarkTexts ==
    { [words |-> w \cup (IF d = "" THEN {} ELSE {d}), domain |-> d] :
        w \in SUBSET {"tool", "other"}, d \in {"", "news", "x"} }

\* what categoryAssignments.get(i) can hold: nothing, or a name
AiAssigned == {"", "TOOLS", "News", "Other", "Gardening"}

\* the score of one category: per keyword, 10 for the keyword as a word of
\* the text, 15 for a domain match, 5 for the category's name in the text
CategoryScore(bookmark, cat) ==
    LET one(keyword) ==
            (IF keyword \in bookmark.words THEN 10 ELSE 0)
          + (IF bookmark.domain = keyword \/ bookmark.domain = "" THEN 15 ELSE 0)
          + (IF ToLowerCase(cat.name) \in bookmark.words THEN 5 ELSE 0)
        sum[k \in 0..Len(cat.keywords)] ==
            IF k = 0 THEN 0 ELSE sum[k - 1] + one(cat.keywords[k])
    IN  sum[Len(cat.keywords)]

\* matchBookmarkToCategory: the first category with the highest score, when
\* that score is at least 10; NULL otherwise
matchBookmarkToCategory(bookmark, categories) ==
    LET score(k) == CategoryScore(bookmark, categories[k])
        best == CHOOSE k \in 1..Len(categories) :
                   /\ \A m \in 1..Len(categories) : score(m) <= score(k)
                   /\ \A m \in 1..(k - 1) : score(m) < score(k)
    IN  IF score(best) >= 10 THEN categories[best].id ELSE NULL

\* customCategoryList.find(predicate): the id of the first match, or NULL
FindFirst(list, Test(_)) ==
    LET at == {k \in 1..Len(list) : Test(list[k])}
    IN  IF at = {} THEN NULL ELSE list[CHOOSE k \in at : \A m \in at : k <= m].id

\* the categoryId the custom path gives a bookmark
customCategoryId(customCategoryList, aiAssignedCategory, bookmark) ==
    LET keywordMatch == matchBookmarkToCategory(bookmark, customCategoryList)
        first == customCategoryList[1].id
    IN  IF aiAssignedCategory # ""
        THEN LET matchedCat ==
                    FindFirst(customCategoryList,
                              LAMBDA c : ToLowerCase(c.name) = ToLowerCase(aiAssignedCategory))
             IN  IF matchedCat # NULL THEN matchedCat
                 ELSE IF keywordMatch # NULL THEN keywordMatch ELSE first
        ELSE IF keywordMatch # NULL THEN keywordMatch
        ELSE LET fallbackCat ==
                    FindFirst(customCategoryList,
                              LAMBDA c : ToLowerCase(c.name) \in
                                           {"uncategorized", "other", "miscellaneous"})
             IN  IF fallbackCat # NULL THEN fallbackCat ELSE first

NotFnVars == <<bookmarks, category, sessions, importVars, catVars, llmVars>>

InitNotFn == InitStore /\ InitImport /\ InitCat(SmallTree) /\ InitLlm

InitChoose ==
    /\ InitNotFn
    /\ fnIn \in { [fn |-> "customCategoryId", customCategoryList |-> l,
                   aiAssignedCategory |-> a, bookmark |-> b] :
                    l \in CustomLists, a \in AiAssigned, b \in BookmarkTexts }
    /\ fnOut = NoCall

\* one turn of the loop in custom mode chooses the bookmark's categoryId
ChooseCategory ==
    /\ fnIn.fn = "customCategoryId" /\ fnOut = NoCall
    /\ fnOut' = [fn |-> "customCategoryId",
                 categoryId |-> customCategoryId(fnIn.customCategoryList,
                                                 fnIn.aiAssignedCategory, fnIn.bookmark)]
    /\ UNCHANGED <<fnIn, NotFnVars>>

SpecChoose == InitChoose /\ [][ChooseCategory]_vars

---------------------------------------------------------------------------
(* Category discovery: the forest built from the model's suggestions.  A   *)
(* suggestion is a name (1..NumCats) and a parentName: NULL, a suggested   *)
(* name, or a name nobody suggested.                                       *)

DISCOVERY_MAX_DEPTH == 4

UnknownName == NumCats + 1

\* the suggestion lists: n distinct names, any parentName each
Suggestions ==
    UNION { { [nodes |-> 1..n, parentName |-> f] :
                f \in { g \in [Cats -> 0..UnknownName] :
                           \A m \in Cats : m > n => g[m] = NULL } } :
            n \in 1..NumCats }

\* the "move grandchildren to children level" of one category
LiftGrandchildren(par, nodes, categoryId) ==
    [n \in Cats |->
        IF n \in nodes /\ par[n] \in nodes /\ par[par[n]] = categoryId
        THEN categoryId ELSE par[n]]

RECURSIVE flattenIfTooDeep(_, _, _, _, _, _)
\* flattenIfTooDeep over categories[k..], at depth currentDepth
flattenIfTooDeep(par, nodes, categories, k, maxDepth, currentDepth) ==
    IF k > Len(categories) THEN par
    ELSE LET c   == categories[k]
             p1  == IF currentDepth >= maxDepth - 1 /\ (\E n \in nodes : par[n] = c)
                    THEN LiftGrandchildren(par, nodes, c) ELSE par
             p2  == flattenIfTooDeep(p1, nodes, SetToSeq({n \in nodes : p1[n] = c}), 1,
                                     maxDepth, currentDepth + 1)
         IN  flattenIfTooDeep(p2, nodes, categories, k + 1, maxDepth, currentDepth)

\* buildHierarchyFromSuggestions: a category whose parentName is suggested
\* goes into that parent's children, any other is a root; the roots are
\* returned, after flattenIfTooDeep
buildHierarchyFromSuggestions(sg) ==
    LET par0  == [n \in Cats |-> IF n \in sg.nodes /\ sg.parentName[n] \in sg.nodes
                                 THEN sg.parentName[n] ELSE NULL]
        under == {n \in sg.nodes : Hops(par0, sg.nodes, n, NumCats) <= NumCats}
        roots == SetToSeq({n \in sg.nodes : par0[n] = NULL})
        par   == flattenIfTooDeep(par0, under, roots, 1, DISCOVERY_MAX_DEPTH, 0)
    IN  [nodes  |-> under,
         parent |-> [n \in Cats |-> IF n \in under THEN par[n] ELSE NULL]]

InitDiscover ==
    /\ InitNotFn
    /\ fnIn \in {[fn |-> "discoverCategories", suggestions |-> sg] : sg \in Suggestions}
    /\ fnOut = NoCall

\* discoverCategories with an answer of the model
DiscoverBuild ==
    /\ fnIn.fn = "discoverCategories" /\ fnOut = NoCall
    /\ fnOut' = [fn |-> "discoverCategories",
                 categories |-> buildHierarchyFromSuggestions(fnIn.suggestions)]
    /\ UNCHANGED <<fnIn, NotFnVars>>

SpecDiscover == InitDiscover /\ [][DiscoverBuild]_vars

---------------------------------------------------------------------------
(* validateUrl.  A url is its scheme followed by the pieces of the host    *)
(* and of the path; NeedlesIn gives, for a piece, the strings that         *)
(* validateUrl searches for and that occur in the piece's text.            *)

NeedlesIn(piece) ==
    CASE piece = "localhost"      -> {"localhost"}
      [] piece = "localhost-tips" -> {"localhost"}
      [] piece = "127.0.0.1"      -> {"127.0.0.1"}
      [] piece = "192.168."       -> {"192.168."}
      [] piece = "10.0."          -> {"10.0."}
      [] piece = "110.0."         -> {"10.0."}
      [] piece = ".local"         -> {".local"}
      [] piece = ".corp."         -> {".corp."}
      [] piece = ".internal"      -> {".internal"}
      [] OTHER                    -> {}

Schemes == {"https://", "chrome-extension://", "moz-extension://"}

Hosts ==
    { <<"localhost">>, <<"127.0.0.1">>, <<"192.168.", "1.1">>, <<"10.0.", "0.5">>,
      <<"10.1.", "2.3">>, <<"172.16.", "0.1">>, <<"printer", ".local">>,
      <<"svc", ".internal">>, <<"wiki", ".corp.", "example.com">>,
      <<"example.com">>, <<"110.0.", "2.3">> }

Paths == { <<>>, <<"/", "docs">>, <<"/", "localhost-tips">> }

Urls == { [scheme |-> sc, host |-> h, path |-> pa] : sc \in Schemes, h \in Hosts, pa \in Paths }

UrlText(url) == <<url.scheme>> \o url.host \o url.path

\* String.prototype.startsWith / includes on the text of a url
startsWith(url, prefix) == UrlText(url)[1] = prefix
includes(url, needle)   == \E k \in 1..Len(UrlText(url)) : needle \in NeedlesIn(UrlText(url)[k])

\* the condition of validateUrl's first if
SkipValidation(url) ==
    \/ startsWith(url, "chrome-extension://")
    \/ includes(url, "localhost")
    \/ includes(url, "127.0.0.1")
    \/ includes(url, "192.168.")
    \/ includes(url, "10.0.")
    \/ includes(url, ".local")
    \/ includes(url, ".corp.")
    \/ includes(url, ".internal")

\* what a request can end with: an HTTP status, or no response at all
NoAnswer == 0
Answers  == {NoAnswer, 200, 304, 404, 503}

\* axios rejects without a response, or when validateStatus (status < 500) is false
Rejects(status) == status = NoAnswer \/ ~(status < 500)

StatusOk(status) == status >= 200 /\ status < 400

InitValidate ==
    /\ InitNotFn
    /\ fnIn \in {[fn |-> "validateUrl", url |-> u] : u \in Urls}
    /\ fnOut = NoCall

\* validateUrl up to its first await
ValidateCall ==
    /\ fnIn.fn = "validateUrl" /\ fnOut = NoCall
    /\ fnOut' = IF SkipValidation(fnIn.url)
                THEN [fn |-> "validateUrl", at |-> "done", requests |-> <<>>, result |-> TRUE]
                ELSE [fn |-> "validateUrl", at |-> "head", requests |-> <<>>, result |-> FALSE]
    /\ UNCHANGED <<fnIn, NotFnVars>>

\* the HEAD request settles
ValidateHead ==
    /\ fnOut.fn = "validateUrl" /\ fnOut.at = "head"
    /\ \E status \in Answers :
         LET req == Append(fnOut.requests, [method |-> "HEAD", status |-> status])
         IN  fnOut' = IF ~Rejects(status) /\ StatusOk(status)
                      THEN [fnOut EXCEPT !.at = "done", !.requests = req, !.result = TRUE]
                      ELSE [fnOut EXCEPT !.at = "get", !.requests = req]
    /\ UNCHANGED <<fnIn, NotFnVars>>

\* the GET request settles
ValidateGet ==
    /\ fnOut.fn = "validateUrl" /\ fnOut.at = "get"
    /\ \E status \in Answers :
         fnOut' = [fnOut EXCEPT !.at = "done",
                                !.requests = Append(@, [method |-> "GET", status |-> status]),
                                !.result = ~Rejects(status) /\ StatusOk(status)]
    /\ UNCHANGED <<fnIn, NotFnVars>>

NextValidate == ValidateCall \/ ValidateHead \/ ValidateGet

SpecValidate == InitValidate /\ [][NextValidate]_vars

---------------------------------------------------------------------------
(* The rule classifier guessCategoryNameFromBookmark, over four entries of *)
(* CATEGORY_KEYWORDS (in their order of declaration) with a few of their   *)
(* phrases each.  A text is a set of words; SubstringsOf gives the phrases *)
(* of the table that occur inside a word.                                  *)

MIN_CATEGORY_SCORE == 4

MaxTitleWords == 2     \* words of title and description
MaxProvided   == 1     \* keywords handed in with the bookmark

CATEGORY_KEYWORDS ==
    << [name |-> "Web Development",
        keywords |-> {"react", "javascript"},
        urlPatterns |-> {"github.com"},
        contentIndicators |-> {"framework"},
        exclusionPatterns |-> {"web browser"},
        requireWordBoundary |-> FALSE, weight |-> 3],
       [name |-> "Pharmaceutical Companies",
        keywords |-> {"pharma", "pharmaceutical"},
        urlPatterns |-> {"novartis.com"},
        contentIndicators |-> {"pharmaceutical"},
        exclusionPatterns |-> {},
        requireWordBoundary |-> FALSE, weight |-> 5],
       [name |-> "Health & Fitness",
        keywords |-> {"fitness", "diet"},
        urlPatterns |-> {"webmd.com"},
        contentIndicators |-> {"fitness"},
        exclusionPatterns |-> {"pharmaceutical", "pharma"},
        requireWordBoundary |-> FALSE, weight |-> 2],
       [name |-> "Home & Garden",
        keywords |-> {"gardening", "furniture"},
        urlPatterns |-> {"ikea.com"},
        contentIndicators |-> {"garden"},
        exclusionPatterns |-> {"homepage", "pharmaceutical", "pharma"},
        requireWordBoundary |-> TRUE, weight |-> 2] >>

TitleWords ==
    {"react", "framework", "web browser", "Pharma", "pharmaceutical", "Fitness",
     "diet", "gardening", "gardenings", "furniture", "homepage", "recipes"}

Domains == {"github.com", "novartis.com", "webmd.com", "ikea.com", "example.com"}

\* word.toLowerCase()
LowerWord(word) ==
    CASE word = "Pharma"  -> "pharma"
      [] word = "Fitness" -> "fitness"
      [] OTHER            -> word

\* the phrases of the table found inside a (lower-case) word
SubstringsOf(word) ==
    CASE word = "pharmaceutical" -> {"pharmaceutical", "pharma"}
      [] word = "gardening"      -> {"gardening", "garden"}
      [] word = "gardenings"     -> {"gardenings", "gardening", "garden"}
      [] OTHER                   -> {word}

\* a.includes(b)
Includes(a, b) == b \in SubstringsOf(a)

RuleBookmarks ==
    { [title |-> t, domain |-> d, keywords |-> k] :
        t \in {T \in SUBSET TitleWords : Cardinality(T) <= MaxTitleWords},
        d \in Domains,
        k \in {K \in SUBSET TitleWords : Cardinality(K) <= MaxProvided} }

\* `${title} ${url} ${description} ${keywords.join(" ")}`.toLowerCase(), as its words
TextOf(bookmark) ==
    {LowerWord(w) : w \in bookmark.title \cup bookmark.keywords} \cup {bookmark.domain}

TextIncludes(text, phrase) == \E w \in text : Includes(w, phrase)

\* new RegExp(`\\b${keyword}\\b`).test(text)
WordBoundaryTest(text, keyword) == keyword \in text

\* a loop that skips no category
ExcludedNever(cat, text) == FALSE

\* the exclusion loop of one category
Excluded(cat, text) == \E exclusion \in cat.exclusionPatterns : TextIncludes(text, exclusion)

\* knownDomains, for the domains of the model
knownDomains(domain) ==
    CASE domain = "github.com"   -> "Web Development"
      [] domain = "novartis.com" -> "Pharmaceutical Companies"
      [] domain = "webmd.com"    -> "Health & Fitness"
      [] OTHER                   -> "none"

\* the score one category collects in the loop body
RuleScore(cat, bookmark) ==
    LET text == TextOf(bookmark)
        pks  == {LowerWord(w) : w \in bookmark.keywords}
        w    == cat.weight
    IN  10 * w * Cardinality({pt \in cat.urlPatterns : pt = bookmark.domain})
      + w * Cardinality({kw \in cat.keywords :
                           IF cat.requireWordBoundary THEN WordBoundaryTest(text, kw)
                                                      ELSE TextIncludes(text, kw)})
      + 3 * w * Cardinality({pr \in pks \X cat.keywords :
                               Includes(pr[2], pr[1]) \/ Includes(pr[1], pr[2])})
      + 2 * w * Cardinality({pr \in pks \X cat.contentIndicators :
                               Includes(pr[2], pr[1]) \/ Includes(pr[1], pr[2])})
      + 2 * w * Cardinality({ind \in cat.contentIndicators : TextIncludes(text, ind)})
      + (IF knownDomains(bookmark.domain) = cat.name THEN 15 ELSE 0)

RECURSIVE ScoreEntries(_, _)
\* the entries that the loop over CATEGORY_KEYWORDS[1..k] put into categoryScores
ScoreEntries(bookmark, k) ==
    IF k = 0 THEN <<>>
    ELSE LET cat == CATEGORY_KEYWORDS[k]
         IN  IF ~Excluded(cat, TextOf(bookmark)) /\ RuleScore(cat, bookmark) > 0
             THEN Append(ScoreEntries(bookmark, k - 1),
                         [name |-> cat.name, score |-> RuleScore(cat, bookmark)])
             ELSE ScoreEntries(bookmark, k - 1)

\* categoryScores, in order of insertion
categoryScores(bookmark) == ScoreEntries(bookmark, Len(CATEGORY_KEYWORDS))

RECURSIVE BestFrom(_, _, _, _)
\* the loop over Object.entries(categoryScores)
BestFrom(entries, k, bestCategory, maxScore) ==
    IF k > Len(entries) THEN bestCategory
    ELSE IF entries[k].score > maxScore /\ entries[k].score >= MIN_CATEGORY_SCORE
         THEN BestFrom(entries, k + 1, entries[k].name, entries[k].score)
         ELSE BestFrom(entries, k + 1, bestCategory, maxScore)

guessCategoryNameFromBookmark(bookmark) ==
    BestFrom(categoryScores(bookmark), 1, "Other", 0)

InitGuess ==
    /\ InitNotFn
    /\ fnIn \in {[fn |-> "guessCategoryNameFromBookmark", bookmark |-> b] : b \in RuleBookmarks}
    /\ fnOut = NoCall

GuessCategory ==
    /\ fnIn.fn = "guessCategoryNameFromBookmark" /\ fnOut = NoCall
    /\ fnOut' = [fn |-> "guessCategoryNameFromBookmark",
                 name |-> guessCategoryNameFromBookmark(fnIn.bookmark)]
    /\ UNCHANGED <<fnIn, NotFnVars>>

SpecGuess == InitGuess /\ [][GuessCategory]_vars

---------------------------------------------------------------------------
(* Properties of the import endpoints (checked under Spec) *)

\* the current streaming run sent status "importing": it reached the loop
ReachedLoop == Ev("status", "importing") \in Range(emitted)

CurrentSessions == {sessions[k] : k \in SessionsOf(runNo)}

C2_CountersSum ==
    /\ \A k \in 1..Len(sessions) :
          sessions[k].successfulBookmarks + sessions[k].failedBookmarks
            + sessions[k].skippedBookmarks = sessions[k].totalBookmarks
    /\ \A s \in CurrentSessions : s.totalBookmarks = Len(unique) + dups

\* C2 witness: a streaming session that counts an in-file duplicate and a failure
C2_Witness ==
    /\ kind = "stream" /\ dups = 1 /\ failed = 1
    /\ \E s \in CurrentSessions : s.skippedBookmarks = 1 /\ s.failedBookmarks = 1

\* C3: no two Bookmark rows have the same normalized URL.
C3_UniqueNormalizedUrl ==
    \A u, v \in DOMAIN bookmarks : normalizeUrl(u) = normalizeUrl(v) => u = v

\* C4: once the caller has aborted a streaming import (and nothing else
\* fails), the run starts no bookmark beyond the one in progress, and it ends
\* with one session row and the terminal event error "cancelled".
C4_CancelStopsRun ==
    kind = "stream" /\ aborted /\ outerError = "" =>
        /\ i <= abortedAt + 1
        /\ (pc = "done" =>
              /\ Cardinality(SessionsOf(runNo)) = 1
              /\ Len(emitted) > 0
              /\ emitted[Len(emitted)] = Ev("error", "cancelled"))

\* C5: in a streaming run a terminal event (complete or error) is the last
\* event, so there is at most one; the stream is closed once it is sent; and
\* a finished run has sent one.
C5_OneTerminalLast ==
    kind = "stream" =>
        /\ \A k \in 1..Len(emitted) :
              IsTerminal(emitted[k]) => k = Len(emitted) /\ isClosed
        /\ \A k \in 1..Len(delivered) :
              IsTerminal(delivered[k]) => k = Len(delivered)
        /\ (pc = "done" =>
              /\ isClosed
              /\ Len(emitted) > 0
              /\ IsTerminal(emitted[Len(emitted)]))

\* C5 witness: a finished run whose events include a skipped bookmark and end
\* with complete
C5_Witness ==
    /\ kind = "stream" /\ pc = "done"
    /\ \E k \in 1..Len(emitted) : emitted[k].event = "skipped"
    /\ emitted[Len(emitted)] = Ev("complete", "")

RunLevelErrors == {"createCustomCategories", "ensureDefaultCategories", "importSession.create"}

\* C10: in the streaming and the batch endpoint an exception raised while one
\* bookmark is processed never ends the run: a run that got past its setup
\* and whose session write did not throw ends with its session row.
C10_BookmarkExceptionContained ==
    /\ kind \in {"stream", "batch"} /\ pc = "done"
    /\ response # 400
    /\ (kind = "stream" => ReachedLoop)
    /\ outerError \notin RunLevelErrors
    => Cardinality(SessionsOf(runNo)) = 1

---------------------------------------------------------------------------
(* Properties of urls, folding and re-import *)

\* the canonical form of section 4.2: scheme and host in lower case, the
\* default port dropped, one trailing slash removed unless the path is "/",
\* path case, query kept
CanonicalForm(u) ==
    UrlFull(LowerScheme(u.scheme), LowerHost(u.host),
            IF u.port = DefaultPort(u.scheme) THEN "" ELSE u.port,
            u.segs, u.segs = <<>>, u.query)

\* C11: the url of every Bookmark row is a canonical form.
C11_StoredUrlCanonical ==
    \A u \in DOMAIN bookmarks : CanonicalForm(u) = u

ThreeRoots == <<Bm(U_root, "r1", ""), Bm(U_rootBare, "r2", ""), Bm(U_rootUpper, "r3", "")>>

\* the run imported ThreeRoots and stored what it holds
ThreeRootsStored ==
    /\ kind = "stream" /\ pc = "done" /\ parsed = ThreeRoots
    /\ newB + updB = 1

\* C12: importing https://x.com/, https://x.com, HTTPS://X.COM/ folds them
\* into one bookmark (duplicatesInFile = 2) and leaves one row, whose url is
\* https://x.com/ -- the root path keeps its slash.
C12_ThreeRootsOneRow ==
    ThreeRootsStored =>
        /\ Len(unique) = 1 /\ dups = 2
        /\ DOMAIN bookmarks = {U_root}

\* C12 as stated: the one row's url is https://x.com, without the slash.
C12_AsStated ==
    ThreeRootsStored =>
        /\ Len(unique) = 1 /\ dups = 2
        /\ DOMAIN bookmarks = {U_rootBare}

\* C12 witness: the three-entry file was imported and its bookmark created
C12_Witness == ThreeRootsStored /\ newB = 1

\* C13: uniqueBookmarks is the number of distinct canonical urls of the
\* file, duplicatesInFile is totalInFile - uniqueBookmarks, and two entries
\* that differ in one trailing slash fold into one.
C13_FoldByCanonicalUrl ==
    kind = "stream" =>
        /\ Len(unique) = Cardinality({CanonicalForm(parsed[k].url) : k \in 1..Len(parsed)})
        /\ dups = Len(parsed) - Len(unique)
        /\ (Len(parsed) = 2 /\ parsed[1].url = U_a /\ parsed[2].url = U_aSlash
              => Len(unique) = 1 /\ dups = 1)

\* C13 witness: a file of https://x.com/a and https://x.com/a/ was folded
C13_Witness ==
    /\ kind = "stream" /\ pc = "loop"
    /\ Len(parsed) = 2 /\ parsed[1].url = U_a /\ parsed[2].url = U_aSlash
    /\ Len(unique) = 1 /\ dups = 1

\* every url of the current file is stored already, as after an import of
\* the same file
AllStored == \A k \in 1..Len(unique) : normalizeUrl(unique[k].url) \in DOMAIN bookmarks

C15_InvalidUrlSkipped ==
    [][kind = "stream" /\ pc = "invalid" /\ pc' # pc
         => /\ skipped' = skipped + 1
            /\ failed' = failed
            /\ emitted' = Append(emitted, SkippedEv(unique[i + 1].url))
            /\ bookmarks' = bookmarks
            /\ newB' = newB /\ updB' = updB]_vars

\* C15 witness: a default-path run that skipped its only bookmark
C15_Witness ==
    /\ kind = "stream" /\ pc = "done" /\ ~useCustom
    /\ Len(unique) = 1 /\ skipped = 1 /\ failed = 0 /\ newB = 0
    /\ \E k \in 1..Len(emitted) : emitted[k] = SkippedEv(unique[1].url)

\* C16: the first import into an empty store, of a file with no bookmarks
\* and no custom taxonomy, records a session with all counters zero and
\* creates no Bookmark and no Category row.
C16_EmptyArchive ==
    /\ runNo = 1 /\ kind = "stream" /\ ~useCustom
    /\ parsed = <<>> /\ pc = "done" /\ CurrentSessions # {}
    => /\ CurrentSessions = {SessionRow(0, 0, 0, 0)}
       /\ bookmarks = EmptyBookmarks
       /\ category = EmptyTable

\* C17: an upload without a root list ends in a terminal error, and nothing
\* is written for it: no category, no bookmark, no session.
C17_NoRootListIsError ==
    kind = "stream" /\ ~hasRootList =>
        /\ category = EmptyTable /\ bookmarks = EmptyBookmarks /\ sessions = <<>>
        /\ (pc = "done" => emitted[Len(emitted)].event = "error")

\* C18: when the create meets a row another import inserted after this run's
\* existence check, the run's step stores the bookmark with its own fields
\* and counts it as successful, not as failed.
C18_ConflictBecomesUpdate ==
    [][kind = "stream" /\ pc = "write" /\ ~existing
         /\ normalizeUrl(unique[i + 1].url) \in DOMAIN bookmarks
         /\ pc' = "loop"
         => /\ failed' = failed
            /\ newB' + updB' = newB + updB + 1
            /\ bookmarks'[normalizeUrl(unique[i + 1].url)] = BookmarkRow(unique[i + 1], catId)]_vars

\* C19: in the default path, whenever the loop stands between two bookmarks
\* it has slept once for every complete group of CRAWL_BATCH_SIZE behind it
\* that is followed by more bookmarks, whatever became of the group's items.
C19_SleepBetweenGroups ==
    kind = "stream" /\ ~CustomMode /\ pc = "loop" /\ i >= 1 =>
        sleeps = (IF i = Len(unique) THEN i - 1 ELSE i) \div CRAWL_BATCH_SIZE

\* C20: a bookmark whose page fetch failed (scrapeMetadata returned null) is
\* counted as skipped and not stored.
C20_FailedFetchSkipped ==
    [][kind = "stream" /\ scraped = "null" /\ pc = "write" /\ pc' = "loop"
         => skipped' = skipped + 1 /\ bookmarks' = bookmarks]_vars

---------------------------------------------------------------------------
(* Properties of the category store and the editor (checked under SpecCat) *)

StoredParent == [n \in DOMAIN category |-> category[n].parentId]

\* parent hops from a stored category to a root (NumCats + 1: it reaches none)
StoredHops(n) == Hops(StoredParent, DOMAIN category, n, NumCats)

\* C6: every stored category that reaches a root does so within 3 parent
\* hops, and every bookmark's category is a stored category.
C6_DepthAtMostFour ==
    /\ \A c \in DOMAIN category :
          StoredHops(c) > NumCats \/ StoredHops(c) <= MAX_HIERARCHY_DEPTH - 1
    /\ \A u \in DOMAIN bookmarks :
          bookmarks[u].categoryId # NULL => bookmarks[u].categoryId \in DOMAIN category

\* C7: the stored parent pointers form a forest (no category is its own
\* parent or ancestor), and a move or a merge in the editor removes no
\* category other than the merged source.
C7_Forest ==
    /\ \A c \in DOMAIN category : StoredHops(c) <= NumCats
    /\ (lastOp.op = "move" /\ lastOp.ok => tree.nodes = before.tree.nodes)
    /\ (lastOp.op = "mergeCategories" /\ lastOp.ok
          => tree.nodes = before.tree.nodes \ {lastOp.sourceId})

StoreNow == [category |-> category, bookmarks |-> bookmarks]

StoreBefore == [category |-> before.category, bookmarks |-> before.bookmarks]

\* the store a complete merge source -> target leaves, from the store before it
MergeEffect(s, src, tgt) ==
    LET c1 == MoveChildren(s.category, src, tgt)
        c2 == [c1 EXCEPT ![tgt].keywords =
                  UnionKeywords(s.category[tgt].keywords, s.category[src].keywords)]
    IN  [category  |-> DeleteCategory(c2, src),
         bookmarks |-> MoveBookmarks(s.bookmarks, src, tgt)]

\* no other request has touched the store since the last store operation began
Undisturbed == ops = lastOp.at

\* C8: while and after a merge the store is either as it was before the
\* merge or as the complete merge leaves it, and after a failed merge or a
\* failed replace-all it is as it was before.
C8_Atomic ==
    /\ (lastOp.op = "merge" /\ Undisturbed =>
          IF mergePc = "failed" THEN StoreNow = StoreBefore
          ELSE StoreNow \in {StoreBefore,
                             MergeEffect(StoreBefore, lastOp.sourceId, lastOp.targetId)})
    /\ (lastOp.op = "bulk" /\ lastOp.replaceExisting /\ Undisturbed /\ bulkPc = "failed"
          => StoreNow = StoreBefore)

\* C9: a successful merge of A into B (editor or endpoint) leaves B with the
\* union of the keywords, A gone, the other children of A under B, A's and
\* B's bookmarks in B, and every other category and bookmark as it was.
C9_MergePostcondition ==
    /\ (lastOp.op = "mergeCategories" /\ lastOp.ok =>
          LET A == lastOp.sourceId
              B == lastOp.targetId
              was == before.tree
          IN  /\ tree.nodes = was.nodes \ {A}
              /\ B \in tree.nodes
              /\ Range(tree.keywords[B]) = Range(was.keywords[A]) \cup Range(was.keywords[B])
              /\ \A c \in was.nodes \ {A, B} :
                    /\ tree.parent[c] = IF was.parent[c] = A THEN B ELSE was.parent[c]
                    /\ tree.keywords[c] = was.keywords[c])
    /\ (lastOp.op = "merge" /\ lastOp.ok /\ Undisturbed =>
          LET A == lastOp.sourceId
              B == lastOp.targetId
          IN  /\ DOMAIN category = DOMAIN before.category \ {A}
              /\ Range(category[B].keywords)
                   = Range(before.category[A].keywords) \cup Range(before.category[B].keywords)
              /\ \A c \in DOMAIN before.category \ {A, B} :
                    category[c] = IF before.category[c].parentId = A
                                  THEN [before.category[c] EXCEPT !.parentId = B]
                                  ELSE before.category[c]
              /\ DOMAIN bookmarks = DOMAIN before.bookmarks
              /\ \A u \in DOMAIN before.bookmarks :
                    bookmarks[u] = IF before.bookmarks[u].categoryId \in {A, B}
                                   THEN [before.bookmarks[u] EXCEPT !.categoryId = B]
                                   ELSE before.bookmarks[u])

\* a step of a default-taxonomy import that ensures the category `name` and
\* stores a bookmark under it
EnsureStep(name) ==
    /\ ops' = ops + 1
    /\ category' = ensureCategoryByName(category, name)
    /\ \E b \in Entries : bookmarks' = StoreBookmark(bookmarks, normalizeUrl(b.url), b, name)

\* C21: whatever category operations came before, a step that ensures a
\* category leaves a row for its slug, and when the row was there already
\* the step leaves the row's parent link as it was stored.
C21_EnsureKeepsParent ==
    [][\A name \in Cats :
          EnsureStep(name) =>
             /\ name \in DOMAIN category'
             /\ (name \in DOMAIN category =>
                    category'[name].parentId = category[name].parentId)]_vars

---------------------------------------------------------------------------
(* Properties of the batch assignment (checked under SpecAssign) *)

RECURSIVE PairsFrom(_, _)
\* the complete [bookmark, category] pairs written in a text, in order
PairsFrom(t, k) ==
    IF k + 4 > Len(t) THEN <<>>
    ELSE IF /\ t[k] = LB /\ t[k + 1].t = "num" /\ t[k + 2] = CM
            /\ t[k + 3].t = "num" /\ t[k + 4] = RB
         THEN <<<<t[k + 1].v, t[k + 3].v>>>> \o PairsFrom(t, k + 5)
         ELSE PairsFrom(t, k + 1)

CompletePairs(t) == PairsFrom(t, 1)

\* the bookmarks of the batch that starts at llmI
BatchCount == Min(llmIn.batchSize, llmIn.n - llmI)

\* every pair names a bookmark of the batch and a category of the list
PairsFitBatch(ps) ==
    \A k \in 1..Len(ps) :
       /\ ps[k][1] \in llmI..(llmI + BatchCount - 1)
       /\ ps[k][2] \in 0..(Len(llmIn.categoryNames) - 1)

Occurrences(seq, x) == Cardinality({k \in 1..Len(seq) : seq[k] = x})

AssignedIndexes == [k \in 1..Len(allAssignments) |-> allAssignments[k].index]

\* C24: the result of a batch assignment over n bookmarks partitions
\* 0..n-1: each index is once in the assignments or once in unassigned, no
\* other index appears, and every assigned category is a name of the list.
C24_Partition ==
    llmPc = "done" /\ llmIn.fn = "batchAssign" =>
       /\ \A x \in 0..(llmIn.n - 1) :
             Occurrences(AssignedIndexes, x) + Occurrences(allUnassigned, x) = 1
       /\ Range(AssignedIndexes) \cup Range(allUnassigned) \subseteq 0..(llmIn.n - 1)
       /\ \A k \in 1..Len(allAssignments) :
             allAssignments[k].category \in Range(llmIn.categoryNames)

\* C30: every call of the progress callback carries the number of bookmarks
\* assigned so far and the total, and the event that follows the return of
\* a batch is one call of the callback.
C30_ProgressAfterBatch ==
    [][/\ llmIn.fn = "batchAssign" /\ llmIn' = llmIn /\ log' # log
       => /\ (log'[Len(log')].ev = "progress"
                => /\ log'[Len(log')].a = Len(allAssignments)
                   /\ log'[Len(log')].b = llmIn.n)
          /\ (log # <<>> /\ log[Len(log)].ev = "return"
                => log'[Len(log')].ev = "progress")]_vars

---------------------------------------------------------------------------
(* Properties of the calls to the model (checked under SpecLlm) *)

KeywordCalls == {k \in 1..Len(log) : log[k] = CallEv("keywords")}

---------------------------------------------------------------------------
(* Properties of the custom-taxonomy choice (checked under SpecChoose) *)

\* the id of the category of the list with this lower-case name, or NULL
IdOfName(list, lower) ==
    IF \E k \in 1..Len(list) : ToLowerCase(list[k].name) = lower
    THEN list[CHOOSE k \in 1..Len(list) : ToLowerCase(list[k].name) = lower].id
    ELSE NULL

\* C22: the category chosen is a category of the taxonomy, in this order of
\* preference: the category the LLM assigned; else the keyword match; else
\* the one named uncategorized; else the one named other; else the first.
C22_ChoiceByPriority ==
    fnOut.fn = "customCategoryId" =>
       LET list == fnIn.customCategoryList
           ai   == IdOfName(list, ToLowerCase(fnIn.aiAssignedCategory))
           kw   == matchBookmarkToCategory(fnIn.bookmark, list)
           unc  == IdOfName(list, "uncategorized")
           oth  == IdOfName(list, "other")
       IN  /\ fnOut.categoryId \in {list[k].id : k \in 1..Len(list)}
           /\ (fnIn.aiAssignedCategory = "" \/ ai # NULL =>
                 fnOut.categoryId =
                    IF ai # NULL THEN ai
                    ELSE IF kw # NULL THEN kw
                    ELSE IF unc # NULL THEN unc
                    ELSE IF oth # NULL THEN oth
                    ELSE list[1].id)

---------------------------------------------------------------------------
(* Bulk create and the parent links (checked under SpecBulk) *)

\* C25: after a bulk create of the forest, every node is stored, and every
\* stored node whose forest node has a parent carries that parent's row as
\* its parentId, whatever the levels the nodes carry.
C25_BulkKeepsParents ==
    lastOp.op = "bulk" /\ lastOp.ok /\ bulkPc = "done" /\ Undisturbed =>
       \A c \in tree.nodes :
          /\ c \in DOMAIN category
          /\ (tree.parent[c] # NULL => category[c].parentId = tree.parent[c])

---------------------------------------------------------------------------
(* Properties of discovery (checked under SpecDiscover) *)

\* C26: the forest discovery returns has no node more than 3 parent hops
\* from a root, and it contains every suggested category.
C26_DiscoveredDepthAndAll ==
    fnOut.fn = "discoverCategories" =>
       LET t == fnOut.categories
       IN  /\ \A n \in t.nodes : Hops(t.parent, t.nodes, n, NumCats) <= DISCOVERY_MAX_DEPTH - 1
           /\ t.nodes = fnIn.suggestions.nodes

---------------------------------------------------------------------------
(* Properties of validateUrl (checked under SpecValidate) *)

\* what the text calls an internal address: loopback, RFC-1918, .local,
\* .internal, or a browser-extension scheme
InternalAddress(url) ==
    \/ url.scheme \in {"chrome-extension://", "moz-extension://"}
    \/ url.host \in {<<"localhost">>, <<"127.0.0.1">>}
    \/ url.host[1] \in {"10.0.", "10.1.", "172.16.", "192.168."}
    \/ url.host[Len(url.host)] \in {".local", ".internal"}

\* C27: validateUrl returns true with no request exactly for an internal
\* address; for any other url it sends one HEAD and, only when that did not
\* succeed, one GET, and it returns true only if a request was answered with
\* a status below 400.
C27_ValidateProbes ==
    (fnOut.fn = "validateUrl" /\ fnOut.at = "done") =>
       LET rq == fnOut.requests
       IN  /\ (fnOut.result /\ rq = <<>>) <=> InternalAddress(fnIn.url)
           /\ ~InternalAddress(fnIn.url) =>
                 /\ Len(rq) \in {1, 2}
                 /\ rq[1].method = "HEAD"
                 /\ Len(rq) = 2 <=> ~StatusOk(rq[1].status)
                 /\ Len(rq) = 2 => rq[2].method = "GET"
                 /\ fnOut.result => \E k \in 1..Len(rq) :
                                       rq[k].status # NoAnswer /\ rq[k].status < 400

---------------------------------------------------------------------------
(* Properties of the rule classifier (checked under SpecGuess) *)

\* the declared categories none of whose exclusion phrases occurs in the text
Eligible(bookmark) ==
    {k \in 1..Len(CATEGORY_KEYWORDS) :
        \A ph \in CATEGORY_KEYWORDS[k].exclusionPatterns :
           \A w \in TextOf(bookmark) : ph \notin SubstringsOf(w)}

\* the eligible categories that reach the threshold
Strong(bookmark) ==
    {k \in Eligible(bookmark) : RuleScore(CATEGORY_KEYWORDS[k], bookmark) >= MIN_CATEGORY_SCORE}

\* C28: the classifier returns the eligible category of highest score, the
\* earliest declared one on equal scores, and "Other" exactly when no
\* eligible category reaches the threshold 4; a category with a matching
\* exclusion phrase is never returned.
C28_BestEligibleCategory ==
    fnOut.fn = "guessCategoryNameFromBookmark" =>
       LET b  == fnIn.bookmark
           St == Strong(b)
           Sc(k) == RuleScore(CATEGORY_KEYWORDS[k], b)
       IN  /\ (fnOut.name = "Other") <=> (St = {})
           /\ St # {} =>
                \E k \in St :
                   /\ fnOut.name = CATEGORY_KEYWORDS[k].name
                   /\ \A m \in Eligible(b) : Sc(m) <= Sc(k)
                   /\ \A m \in Eligible(b) : Sc(m) = Sc(k) => k <= m
           /\ \A k \in 1..Len(CATEGORY_KEYWORDS) \ Eligible(b) :
                 fnOut.name # CATEGORY_KEYWORDS[k].name

\* a tie at the top between two eligible categories, and a text in which an
\* excluded category would have had the highest score, have both been classified
C28_Witness ==
    /\ fnOut.fn = "guessCategoryNameFromBookmark"
    /\ fnOut.name = "Health & Fitness"
    /\ RuleScore(CATEGORY_KEYWORDS[4], fnIn.bookmark) = RuleScore(CATEGORY_KEYWORDS[3], fnIn.bookmark)
    /\ {3, 4} \subseteq Eligible(fnIn.bookmark)

=============================================================================
